---- MODULE Spec2Model ----
(***************************************************************************)
(* Model of the PDF invoice dashboard API (apps/api) and of the browser    *)
(* code that talks to it (apps/web).                                       *)
(*                                                                         *)
(* JavaScript values are tagged records; a JavaScript string is a sequence *)
(* of one-character strings, so that Number() and String() are computed    *)
(* and not assumed.  An Error is its message, a sequence of text parts;    *)
(* String.prototype.includes is evaluated on the parts.                    *)
(***************************************************************************)
EXTENDS Integers, Sequences, FiniteSets, TLC

(***************************************************************************)
(* Bounds of the model.                                                    *)
(***************************************************************************)
\* longest lineItems array of a modelled AI reply
MaxItems == 2
\* most chunks a stored blob is delivered in
MaxChunks == 2
\* number of DELETE /upload/:fileId requests in flight together
MaxDeletes == 2
\* most requests to /api/invoices in one behaviour
MaxRequests == 2
\* largest ObjectId a request to /api/invoices names
MaxAsked == 2
\* longest search term of a modelled list request
MaxTerm == 2
\* most actions of the user on the form in one behaviour
MaxSteps == 3
\* most events of one upload stream and its timer
MaxEvents == 3
\* most calls of connectDB, most connection events, and the largest
\* maxRetries a call is made with
MaxCalls == 3
MaxDrops == 2
MaxRetries == 2

(***************************************************************************)
(* JavaScript values.                                                      *)
(***************************************************************************)
Undef == [t |-> "undef"]
Null == [t |-> "null"]
NaN == [t |-> "nan"]
Num(n) == [t |-> "num", n |-> n]
Str(s) == [t |-> "str", s |-> s]
Bool(b) == [t |-> "bool", b |-> b]
Obj(o) == [t |-> "obj", o |-> o]
Arr(a) == [t |-> "arr", a |-> a]
EmptyObj == Obj(<<>>)

\* typeof v === 'string', typeof v === 'number', Array.isArray(v)
IsString(v) == v.t = "str"
IsNumber(v) == v.t \in {"num", "nan"}
IsArray(v) == v.t = "arr"
IsNullish(v) == v.t \in {"undef", "null"}

\* ToBoolean, as used by || and by !x
Truthy(v) ==
  CASE v.t = "undef" -> FALSE
    [] v.t = "null" -> FALSE
    [] v.t = "nan" -> FALSE
    [] v.t = "num" -> v.n # 0
    [] v.t = "str" -> v.s # <<>>
    [] v.t = "bool" -> v.b
    [] OTHER -> TRUE

\* a || d
OrElse(a, d) == IF Truthy(a) THEN a ELSE d

\* v.f for a v that is neither null nor undefined: a property the value does
\* not carry reads as undefined
GetProp(v, f) ==
  IF v.t = "obj" /\ f \in DOMAIN v.o THEN v.o[f] ELSE Undef

\* v?.f
OptProp(v, f) == IF IsNullish(v) THEN Undef ELSE GetProp(v, f)

Digits == <<"0", "1", "2", "3", "4", "5", "6", "7", "8", "9">>
IsDigit(c) == \E i \in 1..10 : Digits[i] = c
DigitVal(c) == (CHOOSE i \in 1..10 : Digits[i] = c) - 1

RECURSIVE DigitsToNat(_)
DigitsToNat(s) ==
  IF s = <<>> THEN 0
  ELSE 10 * DigitsToNat(SubSeq(s, 1, Len(s) - 1)) + DigitVal(s[Len(s)])

\* Number(s) for a string s: the empty string is 0, a string of decimal
\* digits is its value, any other text of the modelled alphabet is NaN
StringToNumber(s) ==
  IF s = <<>> THEN Num(0)
  ELSE IF \A i \in 1..Len(s) : IsDigit(s[i]) THEN Num(DigitsToNat(s))
  ELSE NaN

RECURSIVE NatToDigits(_)
NatToDigits(n) ==
  IF n < 10 THEN <<Digits[n + 1]>>
  ELSE NatToDigits(n \div 10) \o <<Digits[(n % 10) + 1]>>

\* String(n) for an integer n
NumberToString(n) == IF n < 0 THEN <<"-">> \o NatToDigits(0 - n) ELSE NatToDigits(n)

RECURSIVE ToStringSeq(_)
RECURSIVE JoinComma(_)
\* String(v)
ToStringSeq(v) ==
  CASE v.t = "undef" -> <<"u", "n", "d", "e", "f", "i", "n", "e", "d">>
    [] v.t = "null" -> <<"n", "u", "l", "l">>
    [] v.t = "nan" -> <<"N", "a", "N">>
    [] v.t = "num" -> NumberToString(v.n)
    [] v.t = "str" -> v.s
    [] v.t = "bool" -> IF v.b THEN <<"t", "r", "u", "e">> ELSE <<"f", "a", "l", "s", "e">>
    [] v.t = "arr" -> JoinComma(v.a)
    [] OTHER -> <<"[", "o", "b", "j", "e", "c", "t", " ", "O", "b", "j", "e", "c", "t", "]">>

\* Array.prototype.join(','): null and undefined elements read as ''
JoinComma(a) ==
  IF a = <<>> THEN <<>>
  ELSE LET h == IF IsNullish(a[1]) THEN <<>> ELSE ToStringSeq(a[1])
       IN IF Len(a) = 1 THEN h ELSE h \o <<",">> \o JoinComma(Tail(a))

\* String(v) as a value
JSString(v) == Str(ToStringSeq(v))

\* Number(v)
JSNumber(v) ==
  CASE v.t = "undef" -> NaN
    [] v.t = "null" -> Num(0)
    [] v.t = "nan" -> NaN
    [] v.t = "num" -> v
    [] v.t = "bool" -> IF v.b THEN Num(1) ELSE Num(0)
    [] v.t = "str" -> StringToNumber(v.s)
    [] v.t = "arr" -> StringToNumber(ToStringSeq(v))
    [] OTHER -> NaN

(***************************************************************************)
(* Error messages.  A message is a sequence of text parts (a template      *)
(* literal concatenates them); PartNeedles records which of the substrings *)
(* the code searches for occur in a part.                                   *)
(***************************************************************************)
PartNeedles(p) ==
  CASE p = "503 Service Unavailable" -> {"503 Service Unavailable"}
    [] p = "You exceeded your current quota" -> {"quota"}
    [] p = "Quota exceeded for this model" -> {"Quota"}
    [] p = "rate limit reached for requests" -> {"rate limit"}
    [] p = "The model has been decommissioned (code: model_decommissioned)" -> {"model_decommissioned"}
    [] p = "Groq API rate limit exceeded. Please try again later." -> {"rate limit"}
    [] p = "Groq API quota exceeded. Please try again later." -> {"quota"}
    [] p = "No text could be extracted from the PDF. The PDF might be image-based or corrupted." -> {"No text could be extracted"}
    [] p = "FileNotFound: file was not found" -> {"FileNotFound"}
    [] OTHER -> {}

\* message.includes(needle)
Includes(msg, needle) == \E i \in 1..Len(msg) : needle \in PartNeedles(msg[i])

NoError == <<>>
TypeErrorMsg == <<"Cannot read properties of null">>

(***************************************************************************)
(* extractWithGemini / extractWithGroq: normalization of the parsed reply. *)
(* The result is [threw |-> FALSE, value |-> the normalized data] or       *)
(* [threw |-> TRUE, error |-> the TypeError's message].                     *)
(***************************************************************************)
\* the element mapper of parsedData.invoice.lineItems.map(...)
lineItemGroq(item) ==
  [description |-> JSString(OrElse(GetProp(item, "description"), Str(<<>>))),
   unitPrice |-> OrElse(JSNumber(GetProp(item, "unitPrice")), Num(0)),
   quantity |-> OrElse(JSNumber(GetProp(item, "quantity")), Num(1)),
   total |-> OrElse(JSNumber(GetProp(item, "total")), Num(0))]

lineItemGemini(item) ==
  [description |-> JSString(OrElse(GetProp(item, "description"), Str(<<>>))),
   unitPrice |-> OrElse(JSNumber(GetProp(item, "unitPrice")), Num(0)),
   quantity |-> OrElse(JSNumber(GetProp(item, "quantity")), Num(1)),
   total |-> OrElse(JSNumber(GetProp(item, "total")), Num(0))]

\* reading parsedData.vendor on null, or item.description on a null element,
\* throws a TypeError
normalizeThrows(parsedData) ==
  \/ IsNullish(parsedData)
  \/ LET li == OptProp(GetProp(parsedData, "invoice"), "lineItems")
     IN IsArray(li) /\ \E i \in 1..Len(li.a) : IsNullish(li.a[i])

normalizedDataGroq(parsedData) ==
  IF normalizeThrows(parsedData) THEN [threw |-> TRUE, error |-> TypeErrorMsg]
  ELSE
    LET vendor == GetProp(parsedData, "vendor")
        invoice == GetProp(parsedData, "invoice")
        li == OptProp(invoice, "lineItems")
    IN [threw |-> FALSE,
        value |->
          [vendor |->
             [name |-> OrElse(OptProp(vendor, "name"), Str(<<>>)),
              address |-> OrElse(OptProp(vendor, "address"), Str(<<>>)),
              taxId |-> OrElse(OptProp(vendor, "taxId"), Str(<<>>))],
           invoice |->
             [number |-> OrElse(OptProp(invoice, "number"), Str(<<>>)),
              date |-> OrElse(OptProp(invoice, "date"), Str(<<>>)),
              currency |-> OrElse(OptProp(invoice, "currency"), Str(<<"U", "S", "D">>)),
              subtotal |-> OrElse(JSNumber(OptProp(invoice, "subtotal")), Num(0)),
              taxPercent |-> OrElse(JSNumber(OptProp(invoice, "taxPercent")), Num(0)),
              total |-> OrElse(JSNumber(OptProp(invoice, "total")), Num(0)),
              poNumber |-> OrElse(OptProp(invoice, "poNumber"), Str(<<>>)),
              poDate |-> OrElse(OptProp(invoice, "poDate"), Str(<<>>)),
              lineItems |->
                IF IsArray(li) THEN [i \in 1..Len(li.a) |-> lineItemGroq(li.a[i])]
                ELSE <<>>]]]

normalizedDataGemini(parsedData) ==
  IF normalizeThrows(parsedData) THEN [threw |-> TRUE, error |-> TypeErrorMsg]
  ELSE
    LET vendor == GetProp(parsedData, "vendor")
        invoice == GetProp(parsedData, "invoice")
        li == OptProp(invoice, "lineItems")
    IN [threw |-> FALSE,
        value |->
          [vendor |->
             [name |-> OrElse(OptProp(vendor, "name"), Str(<<>>)),
              address |-> OrElse(OptProp(vendor, "address"), Str(<<>>)),
              taxId |-> OrElse(OptProp(vendor, "taxId"), Str(<<>>))],
           invoice |->
             [number |-> OrElse(OptProp(invoice, "number"), Str(<<>>)),
              date |-> OrElse(OptProp(invoice, "date"), Str(<<>>)),
              currency |-> OrElse(OptProp(invoice, "currency"), Str(<<"U", "S", "D">>)),
              subtotal |-> OrElse(JSNumber(OptProp(invoice, "subtotal")), Num(0)),
              taxPercent |-> OrElse(JSNumber(OptProp(invoice, "taxPercent")), Num(0)),
              total |-> OrElse(JSNumber(OptProp(invoice, "total")), Num(0)),
              poNumber |-> OrElse(OptProp(invoice, "poNumber"), Str(<<>>)),
              poDate |-> OrElse(OptProp(invoice, "poDate"), Str(<<>>)),
              lineItems |->
                IF IsArray(li) THEN [i \in 1..Len(li.a) |-> lineItemGemini(li.a[i])]
                ELSE <<>>]]]

(***************************************************************************)
(* The parsed replies the model draws from: a well-formed reply, and every *)
(* reply that differs from it in one place (one field, one line item, one  *)
(* sub-object, or the whole value) by a value of another shape.            *)
(***************************************************************************)
JSVals ==
  {Undef, Null, Num(0), Num(7), Str(<<>>), Str(<<"a", "b">>), Str(<<"1", "2">>),
   Bool(TRUE), Bool(FALSE), EmptyObj, Arr(<<>>)}

Vendor0 ==
  [name |-> Str(<<"A", "c">>), address |-> Str(<<"R", "d">>), taxId |-> Str(<<"T", "9">>)]

Item0 ==
  [description |-> Str(<<"w">>), unitPrice |-> Num(3), quantity |-> Num(2), total |-> Num(6)]

Invoice0 ==
  [number |-> Str(<<"N", "1">>), date |-> Str(<<"d">>), currency |-> Str(<<"E", "U", "R">>),
   subtotal |-> Num(10), taxPercent |-> Num(5), total |-> Num(11),
   poNumber |-> Str(<<"P">>), poDate |-> Str(<<"e">>), lineItems |-> Arr(<<Obj(Item0)>>)]

VendorVals ==
  JSVals \cup {Obj([Vendor0 EXCEPT ![f] = x]) : f \in DOMAIN Vendor0, x \in JSVals}

\* JSON.parse yields no undefined array element
ItemVals ==
  (JSVals \ {Undef}) \cup {Obj([Item0 EXCEPT ![f] = x]) : f \in DOMAIN Item0, x \in JSVals}

LineItemsVals ==
  JSVals \cup
  UNION {{Arr([k \in 1..n |-> IF k = p THEN i ELSE Obj(Item0)]) : p \in 1..n, i \in ItemVals} :
         n \in 1..MaxItems}

InvoiceVals ==
  JSVals
  \cup {Obj([Invoice0 EXCEPT ![f] = x]) : f \in DOMAIN Invoice0 \ {"lineItems"}, x \in JSVals}
  \cup {Obj([Invoice0 EXCEPT !.lineItems = l]) : l \in LineItemsVals}

ParsedData ==
  {Null, Num(7), EmptyObj, Arr(<<>>)}
  \cup {Obj([vendor |-> v, invoice |-> Obj(Invoice0)]) : v \in VendorVals}
  \cup {Obj([vendor |-> Obj(Vendor0), invoice |-> i]) : i \in InvoiceVals}

(***************************************************************************)
(* State.                                                                  *)
(***************************************************************************)
VARIABLES
  \* process.env: which API keys are configured
  env,
  \* mongoose.connection.readyState (1 = connected)
  readyState,
  \* the GridFS bucket 'pdfs': stored file id -> length in bytes
  bucket,
  \* normalization applied to a drawn reply: the input and the result
  nParsed, nResult,
  \* POST /extract: position of the handler, req.body, the response sent
  xPc, xBody, xRes,
  \* getPDFBuffer: its download stream and its 30 s timer
  xStream, xTimer,
  \* extractWithGroq: index into models, and lastError
  xIdx, lastError,
  \* history of the request: the AI calls made (model names), the outcome of
  \* each, the error the backend call raised, the reads of the bucket, and
  \* whether the local PDF text extraction ran
  xCalls, xOutcomes, xRaised, xReads, xPdfParsed,
  \* whether the handler saw the store connected (line 691)
  xChecked,
  \* the upload page: the file the user chose and what the page did with it
  bFile, bPc,
  \* POST /upload: position of the handler, req.file, the response, the
  \* GridFS upload stream and its 60 s timer
  uPc, uFile, uRes, uStream, uTimer,
  \* POST /upload: the events of the upload stream and of its timer that
  \* reached the handler, in order, and the number of responses sent
  uEvents, uSent,
  \* GET /upload/:fileId: position of the handler, req.params.fileId, the
  \* response, the GridFS download stream and its 30 s timer
  dPc, dId, dRes, dStream, dTimer,
  \* DELETE /upload/:fileId, one entry per concurrent request: position of
  \* the handler, req.params.fileId, the status answered, and whether the
  \* request's bucket.delete removed a file
  delPc, delId, delRes, delRemoved

sharedVars == <<env, readyState, bucket>>
normVars == <<nParsed, nResult>>
extractVars ==
  <<xPc, xBody, xRes, xStream, xTimer, xIdx, lastError, xCalls, xOutcomes, xRaised, xReads,
    xPdfParsed, xChecked>>
uploadVars == <<bFile, bPc, uPc, uFile, uRes, uStream, uTimer, uEvents, uSent>>
downloadVars == <<dPc, dId, dRes, dStream, dTimer>>
deleteVars == <<delPc, delId, delRes, delRemoved>>

\* ids in the ObjectId format (24 hex digits), and one string that is not
FileIds == {"64f000000000000000000001", "64f000000000000000000002"}
BadId == "not-an-object-id"
\* mongoose.Types.ObjectId.isValid
isValid(id) == id \in FileIds

\* a stored PDF of the modelled buckets
SampleLength == 2048
Buckets == {[i \in S |-> SampleLength] : S \in SUBSET FileIds}

(***************************************************************************)
(* Normalization on its own: draw a parsed reply, apply either backend's   *)
(* normalization.                                                          *)
(***************************************************************************)
NotRun == [threw |-> FALSE, value |-> [none |-> TRUE]]

NormalizeGemini ==
  /\ nResult.by = "none"
  /\ nResult' = [by |-> "gemini", r |-> normalizedDataGemini(nParsed)]
  /\ UNCHANGED nParsed

NormalizeGroq ==
  /\ nResult.by = "none"
  /\ nResult' = [by |-> "groq", r |-> normalizedDataGroq(nParsed)]
  /\ UNCHANGED nParsed

(***************************************************************************)
(* POST /api/extract.                                                      *)
(***************************************************************************)
models == <<"llama-3.1-8b-instant", "llama3-8b-8192", "mixtral-8x7b-32768", "gemma-7b-it">>

NoData == [none |-> TRUE]
NoRes == [status |-> 0, error |-> "", details |-> <<>>, retryable |-> "absent", data |-> NoData]
Res(status, error, details, retryable, data) ==
  [status |-> status, error |-> error, details |-> details, retryable |-> retryable,
   data |-> data]

NoStream == [state |-> "none", got |-> 0, total |-> 0]

\* the failures an AI SDK call can raise, by the text the code looks for
UpstreamErrors ==
  {<<"503 Service Unavailable">>, <<"You exceeded your current quota">>,
   <<"Quota exceeded for this model">>, <<"rate limit reached for requests">>,
   <<"The model has been decommissioned (code: model_decommissioned)">>,
   <<"socket hang up">>}

\* what one AI call can come back with: a raised error, an empty reply, a
\* reply that is not JSON, a reply that parses to a value
Outcome(kind, error, value) == [kind |-> kind, error |-> error, value |-> value]
Outcomes ==
  {Outcome("error", e, Undef) : e \in UpstreamErrors}
  \cup {Outcome("empty", NoError, Undef), Outcome("garbage", NoError, Undef)}
  \cup {Outcome("json", NoError, v) : v \in ParsedData}

\* the catch block of the route (lines 725-771)
extractErrorResponse(error) ==
  IF Includes(error, "503 Service Unavailable")
  THEN Res(503, "Service temporarily unavailable",
           <<"The AI service is currently overloaded. Please try again in a few minutes.">>,
           "true", NoData)
  ELSE IF Includes(error, "quota") \/ Includes(error, "Quota")
  THEN Res(429, "Quota exceeded", <<"API quota has been exceeded. Please try again later.">>,
           "true", NoData)
  ELSE IF Includes(error, "rate limit")
  THEN Res(429, "Rate limit exceeded", <<"API rate limit exceeded. Please try again later.">>,
           "true", NoData)
  ELSE IF Includes(error, "model_decommissioned")
  THEN Res(400, "Model not supported",
           <<"The requested model is no longer supported. Please try a different model.">>,
           "false", NoData)
  ELSE Res(500, "Extraction failed", error, "true", NoData)

\* the checks on extractedData and the success response (lines 773-797)
extractSuccessResponse(extractedData) ==
  IF ~(Truthy(Obj(extractedData.vendor)) /\ Truthy(Obj(extractedData.invoice)))
  THEN Res(500, "Incomplete extraction", <<"Missing required vendor or invoice data">>,
           "absent", NoData)
  ELSE Res(200, "", <<>>, "absent", extractedData)

\* the outer catch of extractWithGroq (lines 571-591): the error it rethrows
groqCatch(error) ==
  IF Includes(error, "rate limit")
  THEN <<"Groq API rate limit exceeded. Please try again later.">>
  ELSE IF Includes(error, "quota")
  THEN <<"Groq API quota exceeded. Please try again later.">>
  ELSE IF Includes(error, "model_decommissioned")
  THEN <<"All Groq models are currently unavailable. Please try Gemini instead.">>
  ELSE IF Includes(error, "No text could be extracted")
  THEN <<"Could not extract text from PDF. The file might be image-based or corrupted.">>
  ELSE <<"Failed to extract with Groq: ">> \o error

\* the catch of extractWithGemini (lines 446-449)
geminiCatch(error) == <<"Failed to extract with Gemini: ">> \o error

\* the response of the route when getPDFBuffer rejects (lines 703-709)
fileErrorResponse(error) == Res(404, "File error", error, "absent", NoData)

Bodies == [fileId : {""} \cup FileIds \cup {BadId}, model : {"", "gemini", "groq", "gpt-4"}]

\* a plausible slip: only the Gemini key is checked
apiKeyErrorGeminiOnly(model) ==
  IF model = "gemini" /\ ~env.GEMINI_API_KEY THEN "Gemini API key not configured"
  ELSE ""

\* the API key checks (lines 671-688): the details of the configuration
\* error, or "" when the key of the selected backend is set
apiKeyError(model) ==
  IF model = "gemini" /\ ~env.GEMINI_API_KEY THEN "Gemini API key not configured"
  ELSE IF model = "groq" /\ ~env.GROQ_API_KEY THEN "Groq API key not configured"
  ELSE ""

\* The request arrives: the synchronous part of the handler (lines 652-697)
\* and of getPDFBuffer (lines 596-640), up to the first event it waits for.
ExtractRequest(body) ==
  /\ xPc = "idle"
  /\ xBody' = body
  /\ xChecked' = (/\ body.fileId # "" /\ body.model \in {"gemini", "groq"}
                  /\ (body.model = "gemini" => env.GEMINI_API_KEY)
                  /\ (body.model = "groq" => env.GROQ_API_KEY)
                  /\ readyState = 1)
  /\ IF body.fileId = "" \/ body.model = ""
     THEN /\ xRes' = Res(400, "Missing required fields",
                         <<"Both fileId and model are required">>, "absent", NoData)
          /\ xPc' = "done"
          /\ UNCHANGED <<xStream, xTimer, xReads>>
     ELSE IF body.model \notin {"gemini", "groq"}
     THEN /\ xRes' = Res(400, "Invalid model",
                         <<"Model must be either gemini or groq">>, "absent", NoData)
          /\ xPc' = "done"
          /\ UNCHANGED <<xStream, xTimer, xReads>>
     ELSE IF apiKeyError(body.model) # ""
     THEN /\ xRes' = Res(500, "Configuration error", <<apiKeyError(body.model)>>,
                         "absent", NoData)
          /\ xPc' = "done"
          /\ UNCHANGED <<xStream, xTimer, xReads>>
     ELSE IF readyState # 1
     THEN /\ xRes' = Res(500, "Database error", <<"Database not connected">>, "absent", NoData)
          /\ xPc' = "done"
          /\ UNCHANGED <<xStream, xTimer, xReads>>
     ELSE IF ~isValid(body.fileId)
     THEN /\ xRes' = fileErrorResponse(<<"Invalid file ID format">>)
          /\ xPc' = "done"
          /\ UNCHANGED <<xStream, xTimer, xReads>>
     ELSE /\ \E n \in 1..MaxChunks : xStream' = [state |-> "open", got |-> 0, total |-> n]
          /\ xTimer' = "armed"
          /\ xReads' = xReads + 1
          /\ xPc' = "buffer"
          /\ UNCHANGED xRes
  /\ UNCHANGED <<xIdx, lastError, xCalls, xOutcomes, xRaised, xPdfParsed, readyState>>

\* downloadStream 'data' (lines 613-615)
BufferData ==
  /\ xStream.state = "open"
  /\ xBody.fileId \in DOMAIN bucket
  /\ xStream.got < xStream.total
  /\ xStream' = [xStream EXCEPT !.got = @ + 1]
  /\ UNCHANGED <<xPc, xBody, xRes, xTimer, xIdx, lastError, xCalls, xOutcomes, xRaised, xReads,
                 xPdfParsed, xChecked, readyState>>

\* downloadStream 'end' (lines 617-625); the awaiting route then dispatches
BufferEnd ==
  /\ xStream.state = "open"
  /\ xBody.fileId \in DOMAIN bucket
  /\ xStream.got = xStream.total
  /\ xStream' = [xStream EXCEPT !.state = "ended"]
  /\ IF xStream.got = 0
     THEN /\ xRes' = fileErrorResponse(<<"Empty file or file not found">>)
          /\ xPc' = "done"
     ELSE /\ xPc' = IF xBody.model = "gemini" THEN "gemini" ELSE "pdfparse"
          /\ UNCHANGED xRes
  /\ UNCHANGED <<xBody, xTimer, xIdx, lastError, xCalls, xOutcomes, xRaised, xReads, xPdfParsed,
                 xChecked, readyState>>

\* a plausible slip: the error handler resolves with what was read so far
BufferErrorResolves(error) ==
  /\ xStream.state = "open"
  /\ Includes(error, "FileNotFound") <=> xBody.fileId \notin DOMAIN bucket
  /\ xStream' = [xStream EXCEPT !.state = "errored"]
  /\ xPc' = IF xBody.model = "gemini" THEN "gemini" ELSE "pdfparse"
  /\ UNCHANGED <<xBody, xRes, xTimer, xIdx, lastError, xCalls, xOutcomes, xRaised, xReads,
                 xPdfParsed, xChecked, readyState>>

\* downloadStream 'error' (lines 627-634): the id names no file, or the read
\* of the store fails
BufferError(error) ==
  /\ xStream.state = "open"
  /\ Includes(error, "FileNotFound") <=> xBody.fileId \notin DOMAIN bucket
  /\ xStream' = [xStream EXCEPT !.state = "errored"]
  /\ xRes' = IF Includes(error, "FileNotFound")
             THEN fileErrorResponse(<<"File not found">>)
             ELSE fileErrorResponse(<<"Failed to download file: ">> \o error)
  /\ xPc' = "done"
  /\ UNCHANGED <<xBody, xTimer, xIdx, lastError, xCalls, xOutcomes, xRaised, xReads, xPdfParsed,
                 xChecked, readyState>>

\* the 30 s timer of getPDFBuffer (lines 637-640); it is never cleared, so it
\* also fires after the promise has settled, where reject() has no effect
BufferTimeout ==
  /\ xTimer = "armed"
  /\ xTimer' = "fired"
  /\ xStream' = IF xStream.state = "open" THEN [xStream EXCEPT !.state = "destroyed"]
                ELSE xStream
  /\ IF xPc = "buffer"
     THEN /\ xRes' = fileErrorResponse(<<"Download timeout">>)
          /\ xPc' = "done"
     ELSE UNCHANGED <<xRes, xPc>>
  /\ UNCHANGED <<xBody, xIdx, lastError, xCalls, xOutcomes, xRaised, xReads, xPdfParsed,
                 xChecked, readyState>>

\* extractWithGemini (lines 394-450) and the route's response
GeminiCall(o) ==
  /\ xPc = "gemini"
  /\ xCalls' = Append(xCalls, "gemini-1.5-flash")
  /\ xOutcomes' = Append(xOutcomes, o)
  /\ LET n == normalizedDataGemini(o.value)
         thrown == CASE o.kind = "error" -> o.error
                     [] o.kind = "empty" -> <<"Unexpected end of JSON input">>
                     [] o.kind = "garbage" -> <<"Unexpected token in JSON">>
                     [] OTHER -> IF n.threw THEN n.error ELSE NoError
     IN IF thrown # NoError
        THEN /\ xRaised' = thrown
             /\ xRes' = extractErrorResponse(geminiCatch(thrown))
        ELSE /\ xRaised' = NoError
             /\ xRes' = extractSuccessResponse(n.value)
  /\ xPc' = "done"
  /\ UNCHANGED <<xBody, xStream, xTimer, xIdx, lastError, xReads, xPdfParsed, xChecked,
                 readyState>>

\* extractWithGroq, the local text extraction (lines 454-464)
PdfTexts == {"text", "blank", "throws"}
GroqPdfParse(t) ==
  /\ xPc = "pdfparse"
  /\ xPdfParsed' = TRUE
  /\ IF t = "text"
     THEN /\ xPc' = "groq"
          /\ xIdx' = 1
          /\ UNCHANGED <<xRes, xRaised>>
     ELSE LET thrown ==
                IF t = "blank"
                THEN <<"No text could be extracted from the PDF. The PDF might be image-based or corrupted.">>
                ELSE <<"Invalid PDF structure">>
          IN /\ xRaised' = thrown
             /\ xRes' = extractErrorResponse(groqCatch(thrown))
             /\ xPc' = "done"
             /\ UNCHANGED xIdx
  /\ UNCHANGED <<xBody, xStream, xTimer, lastError, xCalls, xOutcomes, xReads, xChecked,
                 readyState>>

\* the loop over models going on to the next model after any failure
GroqCallNextOnAnyError(o) ==
  /\ xPc = "groq"
  /\ xCalls' = Append(xCalls, models[xIdx])
  /\ xOutcomes' = Append(xOutcomes, o)
  /\ LET n == normalizedDataGroq(o.value)
         thrown == CASE o.kind = "error" -> o.error
                     [] o.kind = "empty" -> <<"No response from Groq API">>
                     [] o.kind = "garbage" -> <<"Invalid JSON response from Groq API">>
                     [] OTHER -> IF n.threw THEN n.error ELSE NoError
     IN IF thrown = NoError
        THEN /\ xRes' = extractSuccessResponse(n.value)
             /\ xPc' = "done"
             /\ UNCHANGED <<xIdx, lastError, xRaised>>
        ELSE /\ lastError' = thrown
             /\ IF xIdx < Len(models)
                THEN /\ xIdx' = xIdx + 1
                     /\ UNCHANGED <<xRes, xPc, xRaised>>
                ELSE /\ xRaised' = thrown
                     /\ xRes' = extractErrorResponse(groqCatch(thrown))
                     /\ xPc' = "done"
                     /\ UNCHANGED xIdx
  /\ UNCHANGED <<xBody, xStream, xTimer, xReads, xPdfParsed, xChecked, readyState>>

\* extractWithGroq, one iteration of the loop over models (lines 475-566),
\* with the throw after the loop and the outer catch when the loop is left
GroqCall(o) ==
  /\ xPc = "groq"
  /\ xCalls' = Append(xCalls, models[xIdx])
  /\ xOutcomes' = Append(xOutcomes, o)
  /\ LET n == normalizedDataGroq(o.value)
         thrown == CASE o.kind = "error" -> o.error
                     [] o.kind = "empty" -> <<"No response from Groq API">>
                     [] o.kind = "garbage" -> <<"Invalid JSON response from Groq API">>
                     [] OTHER -> IF n.threw THEN n.error ELSE NoError
     IN IF thrown = NoError
        THEN /\ xRes' = extractSuccessResponse(n.value)
             /\ xPc' = "done"
             /\ UNCHANGED <<xIdx, lastError, xRaised>>
        ELSE /\ lastError' = thrown
             /\ IF Includes(thrown, "model_decommissioned") /\ xIdx < Len(models)
                THEN /\ xIdx' = xIdx + 1
                     /\ UNCHANGED <<xRes, xPc, xRaised>>
                ELSE /\ xRaised' = thrown
                     /\ xRes' = extractErrorResponse(groqCatch(thrown))
                     /\ xPc' = "done"
                     /\ UNCHANGED xIdx
  /\ UNCHANGED <<xBody, xStream, xTimer, xReads, xPdfParsed, xChecked, readyState>>

StreamErrors == {<<"FileNotFound: file was not found">>, <<"connection closed">>}

\* startServer: connectDB is awaited, then the server listens; no API key is
\* read.  A failed connectDB ends the process.
StartServer(connected) ==
  /\ xPc = "starting"
  /\ IF connected
     THEN readyState' = 1 /\ xPc' = "idle"
     ELSE readyState' = 0 /\ xPc' = "exited"
  /\ UNCHANGED <<xBody, xRes, xStream, xTimer, xIdx, lastError, xCalls, xOutcomes, xRaised,
                 xReads, xPdfParsed, xChecked>>

\* the connection to the store drops, or comes back, while the server runs
ConnectionEvent ==
  /\ xPc \notin {"starting", "exited"}
  /\ readyState' = 1 - readyState
  /\ UNCHANGED extractVars

ExtractNext ==
  \/ \E c \in BOOLEAN : StartServer(c)
  \/ ConnectionEvent
  \/ \E body \in Bodies : ExtractRequest(body)
  \/ BufferData
  \/ BufferEnd
  \/ \E e \in StreamErrors : BufferError(e)
  \/ BufferTimeout
  \/ \E o \in Outcomes : GeminiCall(o)
  \/ \E t \in PdfTexts : GroqPdfParse(t)
  \/ \E o \in Outcomes : GroqCall(o)

(***************************************************************************)
(* The upload page (apps/web/src/app/page.tsx) and POST /api/upload.       *)
(***************************************************************************)
\* limits.fileSize of the multer instance: 25 MiB
fileSize == 25 * 1024 * 1024
\* the size the page compares file.size with
pageMaxSize == 25 * 1024 * 1024

NoFile == [present |-> FALSE, mimetype |-> "", size |-> 0]
\* the sizes around the documented boundary, 25 MiB = 26214400 bytes
FileSizes == {0, 1, 26214399, 26214400, 26214401}
Files ==
  {NoFile} \cup [present : {TRUE}, mimetype : {"application/pdf", "image/png"}, size : FileSizes]

NoUpload == [status |-> 0, error |-> "", fileId |-> ""]
UploadRes(status, error, id) == [status |-> status, error |-> error, fileId |-> id]
NoUploadStream == [state |-> "none", id |-> ""]

\* a plausible slip: >= where the server's limit is >
pageCheckInclusive(file) ==
  IF ~file.present THEN "none"
  ELSE IF file.mimetype # "application/pdf" THEN "type"
  ELSE IF file.size >= pageMaxSize THEN "size"
  ELSE "send"

\* the checks of handleFileUpload (lines 17-36): "none" without a file,
\* "type" and "size" for the two toasts, "send" when the request is made
pageCheck(file) ==
  IF ~file.present THEN "none"
  ELSE IF file.mimetype # "application/pdf" THEN "type"
  ELSE IF file.size > pageMaxSize THEN "size"
  ELSE "send"

\* handleFileUpload: the user picks a file on the page
handleFileUpload(file) ==
  /\ bPc = "idle" /\ uPc = "idle"
  /\ bFile' = file
  /\ IF pageCheck(file) = "send"
     THEN bPc' = "sent" /\ uPc' = "received" /\ uFile' = file
     ELSE bPc' = "rejected" /\ UNCHANGED <<uPc, uFile>>
  /\ UNCHANGED <<uRes, uStream, uTimer, uEvents, uSent, bucket>>

\* a client that is not the page posts a file, possibly the one the page
\* has refused
DirectUpload(file) ==
  /\ bPc \in {"idle", "rejected"} /\ uPc = "idle"
  /\ bPc = "rejected" => file = bFile
  /\ uPc' = "received" /\ uFile' = file
  /\ UNCHANGED <<bFile, bPc, uRes, uStream, uTimer, uEvents, uSent, bucket>>

\* upload.single('pdf') with the fileFilter and the fileSize limit: the
\* error multer passes on, or "" when the file is put in req.file
multerError(file) ==
  IF ~file.present THEN ""
  ELSE IF file.mimetype # "application/pdf" THEN "Only PDF files are allowed"
  ELSE IF file.size > fileSize THEN "LIMIT_FILE_SIZE"
  ELSE ""

\* handleMulterError (lines 24-39)
handleMulterError(err) ==
  IF err = "LIMIT_FILE_SIZE" THEN UploadRes(400, "File too large. Maximum size is 25MB.", "")
  ELSE IF err = "LIMIT_UNEXPECTED_FILE" THEN UploadRes(400, "Unexpected file field.", "")
  ELSE IF err = "Only PDF files are allowed" THEN UploadRes(400, "Only PDF files are allowed", "")
  ELSE UploadRes(500, "File upload error", "")

\* multer, handleMulterError and the synchronous part of the handler, up to
\* uploadStream.end(req.file.buffer) (lines 51-113)
UploadHandle ==
  /\ uPc = "received"
  /\ IF multerError(uFile) # ""
     THEN /\ uRes' = handleMulterError(multerError(uFile))
          /\ uPc' = "done"
          /\ uSent' = uSent + 1
          /\ UNCHANGED <<uStream, uTimer>>
     ELSE IF ~uFile.present
     THEN /\ uRes' = UploadRes(400, "No file uploaded", "")
          /\ uPc' = "done"
          /\ uSent' = uSent + 1
          /\ UNCHANGED <<uStream, uTimer>>
     ELSE IF readyState # 1
     THEN /\ uRes' = UploadRes(500, "Database error", "")
          /\ uPc' = "done"
          /\ uSent' = uSent + 1
          /\ UNCHANGED <<uStream, uTimer>>
     ELSE IF uFile.size = 0
     THEN /\ uRes' = UploadRes(400, "Invalid file", "")
          /\ uPc' = "done"
          /\ uSent' = uSent + 1
          /\ UNCHANGED <<uStream, uTimer>>
     ELSE /\ \E id \in FileIds \ DOMAIN bucket : uStream' = [state |-> "writing", id |-> id]
          /\ uTimer' = "armed"
          /\ uPc' = "writing"
          /\ UNCHANGED <<uRes, uSent>>
  /\ UNCHANGED <<bFile, bPc, uFile, uEvents, bucket>>

\* uploadStream 'finish' (lines 92-95, 108) and the response (lines 117-126)
UploadFinish ==
  /\ uStream.state = "writing"
  /\ uStream' = [uStream EXCEPT !.state = "finished"]
  /\ uTimer' = "cleared"
  /\ bucket' = [i \in DOMAIN bucket \cup {uStream.id} |->
                  IF i = uStream.id THEN uFile.size ELSE bucket[i]]
  /\ uRes' = UploadRes(201, "", uStream.id)
  /\ uPc' = "done"
  /\ uEvents' = Append(uEvents, "finish")
  /\ uSent' = uSent + 1
  /\ UNCHANGED <<bFile, bPc, uFile>>

\* uploadStream 'error' (lines 97-100, 109) and the response (lines 127-133)
UploadError ==
  /\ uStream.state = "writing"
  /\ uStream' = [uStream EXCEPT !.state = "errored"]
  /\ uTimer' = "cleared"
  /\ uRes' = UploadRes(500, "Upload failed", "")
  /\ uPc' = "done"
  /\ uEvents' = Append(uEvents, "error")
  /\ uSent' = uSent + 1
  /\ UNCHANGED <<bFile, bPc, uFile, bucket>>

\* the 60 s timer (lines 103-106) and the response (lines 127-133)
UploadTimeout ==
  /\ uTimer = "armed"
  /\ uTimer' = "fired"
  /\ uStream' = [uStream EXCEPT !.state = "destroyed"]
  /\ uRes' = UploadRes(500, "Upload failed", "")
  /\ uPc' = "done"
  /\ uEvents' = Append(uEvents, "timeout")
  /\ uSent' = uSent + 1
  /\ UNCHANGED <<bFile, bPc, uFile, bucket>>

\* a late event answered with a second response
UploadLateEventResponds(event) ==
  /\ uStream.state \in {"finished", "errored", "destroyed"}
  /\ Len(uEvents) < MaxEvents
  /\ uEvents' = Append(uEvents, event)
  /\ uRes' = IF event = "finish" THEN UploadRes(201, "", uStream.id)
             ELSE UploadRes(500, "Upload failed", "")
  /\ uSent' = uSent + 1
  /\ bucket' = IF event = "finish"
               THEN [i \in DOMAIN bucket \cup {uStream.id} |->
                       IF i = uStream.id THEN uFile.size ELSE bucket[i]]
               ELSE bucket
  /\ UNCHANGED <<bFile, bPc, uPc, uFile, uStream, uTimer>>

\* uploadStream 'finish' or 'error' once uploadPromise is settled (lines
\* 92-109): resolve and reject have no effect, clearTimeout clears a timer
\* that is cleared or has fired, and the await of line 116 has resumed once.
\* A 'finish' means the write went through.
UploadLateEvent(event) ==
  /\ uStream.state \in {"finished", "errored", "destroyed"}
  /\ Len(uEvents) < MaxEvents
  /\ uEvents' = Append(uEvents, event)
  /\ bucket' = IF event = "finish"
               THEN [i \in DOMAIN bucket \cup {uStream.id} |->
                       IF i = uStream.id THEN uFile.size ELSE bucket[i]]
               ELSE bucket
  /\ UNCHANGED <<bFile, bPc, uPc, uFile, uRes, uStream, uTimer, uSent>>

UploadNext ==
  \/ \E f \in Files : handleFileUpload(f)
  \/ \E f \in Files : DirectUpload(f)
  \/ UploadHandle
  \/ UploadFinish
  \/ UploadError
  \/ UploadTimeout
  \/ \E event \in {"finish", "error"} : UploadLateEvent(event)

(***************************************************************************)
(* GET /api/upload/:fileId.                                                *)
(***************************************************************************)
NoDownload == [headersSent |-> FALSE, status |-> 0, error |-> "", chunks |-> 0, ended |-> FALSE]
\* res.status(code).json({error}): headers, body and end in one call
JsonRes(status, error) ==
  [headersSent |-> TRUE, status |-> status, error |-> error, chunks |-> 0, ended |-> TRUE]

\* the request arrives: lines 146-164, up to the await of bucket.find
DownloadRequest(id) ==
  /\ dPc = "idle"
  /\ dId' = id
  /\ IF readyState # 1
     THEN dRes' = JsonRes(500, "Database error") /\ dPc' = "done"
     ELSE IF ~isValid(id)
     THEN dRes' = JsonRes(400, "Invalid file ID") /\ dPc' = "done"
     ELSE dPc' = "finding" /\ UNCHANGED dRes
  /\ UNCHANGED <<dStream, dTimer>>

\* bucket.find(...).toArray() settles (lines 167-181); when the file is
\* there the stream is opened, the timer set and the stream piped into the
\* response (lines 184-223)
DownloadFind(failed) ==
  /\ dPc = "finding"
  /\ IF failed
     THEN /\ dRes' = JsonRes(500, "Database error") /\ dPc' = "done"
          /\ UNCHANGED <<dStream, dTimer>>
     ELSE IF dId \notin DOMAIN bucket
     THEN /\ dRes' = JsonRes(404, "File not found") /\ dPc' = "done"
          /\ UNCHANGED <<dStream, dTimer>>
     ELSE /\ \E n \in 1..MaxChunks : dStream' = [state |-> "open", got |-> 0, total |-> n]
          /\ dTimer' = "armed"
          /\ dPc' = "streaming"
          /\ UNCHANGED dRes
  /\ UNCHANGED dId

\* the stream delivers a chunk and pipe() writes it to the response, which
\* sends the headers with the first write
DownloadData ==
  /\ dStream.state = "open"
  /\ dStream.got < dStream.total
  /\ dStream' = [dStream EXCEPT !.got = @ + 1]
  /\ dRes' = [dRes EXCEPT !.headersSent = TRUE, !.status = 200, !.chunks = @ + 1]
  /\ UNCHANGED <<dPc, dId, dTimer>>

\* downloadStream 'end' (lines 204-206, 219): pipe() ends the response
DownloadEnd ==
  /\ dStream.state = "open"
  /\ dStream.got = dStream.total
  /\ dStream' = [dStream EXCEPT !.state = "ended"]
  /\ dTimer' = "cleared"
  /\ dRes' = [dRes EXCEPT !.headersSent = TRUE, !.status = 200, !.ended = TRUE]
  /\ dPc' = "done"
  /\ UNCHANGED dId

\* downloadStream 'error' (lines 194-202, 220)
DownloadError ==
  /\ dStream.state = "open"
  /\ dStream' = [dStream EXCEPT !.state = "errored"]
  /\ dTimer' = "cleared"
  /\ dRes' = IF ~dRes.headersSent THEN JsonRes(404, "File not found") ELSE dRes
  /\ dPc' = "done"
  /\ UNCHANGED dId

\* a plausible slip: the timer answers without destroying the stream
DownloadTimeoutNoDestroy ==
  /\ dTimer = "armed"
  /\ dTimer' = "fired"
  /\ dRes' = IF ~dRes.headersSent THEN JsonRes(408, "Download timeout") ELSE dRes
  /\ dPc' = "done"
  /\ UNCHANGED <<dId, dStream>>

\* the 30 s timer (lines 209-217)
DownloadTimeout ==
  /\ dTimer = "armed"
  /\ dTimer' = "fired"
  /\ dStream' = [dStream EXCEPT !.state = "destroyed"]
  /\ dRes' = IF ~dRes.headersSent THEN JsonRes(408, "Download timeout") ELSE dRes
  /\ dPc' = "done"
  /\ UNCHANGED dId

DownloadNext ==
  \/ \E id \in FileIds \cup {BadId} : DownloadRequest(id)
  \/ \E failed \in BOOLEAN : DownloadFind(failed)
  \/ DownloadData
  \/ DownloadEnd
  \/ DownloadError
  \/ DownloadTimeout

(***************************************************************************)
(* DELETE /api/upload/:fileId, several requests together.                  *)
(***************************************************************************)
Deleters == 1..MaxDeletes

\* the request arrives: lines 289-303, up to the await of bucket.find
DeleteRequest(p, id) ==
  /\ delPc[p] = "idle"
  /\ delId' = [delId EXCEPT ![p] = id]
  /\ IF readyState # 1
     THEN delRes' = [delRes EXCEPT ![p] = 500] /\ delPc' = [delPc EXCEPT ![p] = "done"]
     ELSE IF ~isValid(id)
     THEN delRes' = [delRes EXCEPT ![p] = 400] /\ delPc' = [delPc EXCEPT ![p] = "done"]
     ELSE delPc' = [delPc EXCEPT ![p] = "finding"] /\ UNCHANGED delRes
  /\ UNCHANGED <<delRemoved, bucket>>

\* bucket.find(...).toArray() settles (lines 306-312)
DeleteFind(p) ==
  /\ delPc[p] = "finding"
  /\ IF delId[p] \notin DOMAIN bucket
     THEN delRes' = [delRes EXCEPT ![p] = 404] /\ delPc' = [delPc EXCEPT ![p] = "done"]
     ELSE delPc' = [delPc EXCEPT ![p] = "deleting"] /\ UNCHANGED delRes
  /\ UNCHANGED <<delId, delRemoved, bucket>>

\* bucket.delete settles (lines 315-321); it rejects when no file has the
\* id, and the catch answers 500 (lines 323-329)
DeleteBlob(p) ==
  /\ delPc[p] = "deleting"
  /\ IF delId[p] \in DOMAIN bucket
     THEN /\ bucket' = [i \in DOMAIN bucket \ {delId[p]} |-> bucket[i]]
          /\ delRemoved' = [delRemoved EXCEPT ![p] = TRUE]
          /\ delRes' = [delRes EXCEPT ![p] = 200]
     ELSE /\ delRes' = [delRes EXCEPT ![p] = 500]
          /\ UNCHANGED <<bucket, delRemoved>>
  /\ delPc' = [delPc EXCEPT ![p] = "done"]
  /\ UNCHANGED delId

DeleteNext ==
  \/ \E p \in Deleters, id \in FileIds \cup {BadId} : DeleteRequest(p, id)
  \/ \E p \in Deleters : DeleteFind(p)
  \/ \E p \in Deleters : DeleteBlob(p)

(***************************************************************************)
(* The invoices collection (mongoose model Invoice) and /api/invoices.     *)
(*                                                                         *)
(* An ObjectId is a positive number, in the order the driver generates     *)
(* them; NotAnObjectId is an id string that does not cast to an ObjectId.  *)
(* The _id that mongoose adds to every sub-document is left out: the       *)
(* sub-documents are compared on the fields their schemas declare.         *)
(***************************************************************************)
VARIABLES
  \* the invoices collection, in insertion order
  invoices,
  \* the clock (Date.now), and the next ObjectId the driver generates
  now, nextOid,
  \* the requests to /api/invoices so far, each with its response
  iLog,
  \* the ids a DELETE /api/invoices/:id has answered success for, and the
  \* ids that have named a stored document
  iDeleted, iAssigned

invoiceVars == <<invoices, now, nextOid, iLog, iDeleted, iAssigned>>

NotAnObjectId == 0

\* a value mongoose cannot cast to the type of its path
CastError == [t |-> "casterr"]

\* SchemaString cast
castString(v) ==
  CASE v.t = "str" -> v
    [] v.t = "num" -> JSString(v)
    [] v.t = "bool" -> JSString(v)
    [] v.t = "null" -> Null
    [] v.t = "undef" -> Undef
    [] OTHER -> CastError

\* SchemaNumber cast
castNumber(v) ==
  CASE v.t = "num" -> v
    [] v.t = "str" ->
         IF v.s = <<>> THEN Null
         ELSE IF StringToNumber(v.s).t = "num" THEN StringToNumber(v.s) ELSE CastError
    [] v.t = "bool" -> JSNumber(v)
    [] v.t = "null" -> Null
    [] v.t = "undef" -> Undef
    [] OTHER -> CastError

castLeaf(type, v) == IF type = "String" THEN castString(v) ELSE castNumber(v)

\* the required validator of a String path and of a Number path
checkRequired(type, c) ==
  IF type = "String" THEN c.t = "str" /\ c.s # <<>> ELSE c.t = "num"

LineItemSchema ==
  [description |-> [type |-> "String", required |-> TRUE],
   unitPrice |-> [type |-> "Number", required |-> TRUE],
   quantity |-> [type |-> "Number", required |-> TRUE],
   total |-> [type |-> "Number", required |-> TRUE]]

VendorSchema ==
  [name |-> [type |-> "String", required |-> TRUE],
   address |-> [type |-> "String", required |-> FALSE],
   taxId |-> [type |-> "String", required |-> FALSE]]

\* the paths of InvoiceDataSchema other than lineItems
InvoiceDataSchema ==
  [number |-> [type |-> "String", required |-> TRUE],
   date |-> [type |-> "String", required |-> TRUE],
   currency |-> [type |-> "String", required |-> FALSE],
   subtotal |-> [type |-> "Number", required |-> FALSE],
   taxPercent |-> [type |-> "Number", required |-> FALSE],
   total |-> [type |-> "Number", required |-> FALSE],
   poNumber |-> [type |-> "String", required |-> FALSE],
   poDate |-> [type |-> "String", required |-> FALSE]]

\* the paths of a sub-document the value sets (strict mode drops every
\* property the schema does not declare)
pathsSet(schema, v) == {f \in DOMAIN schema : GetProp(v, f).t # "undef"}

\* casting and validation of a sub-document fail
subdocInvalid(schema, v) ==
  \/ v.t # "obj"
  \/ \E f \in DOMAIN schema :
       LET c == castLeaf(schema[f].type, GetProp(v, f))
       IN \/ c.t = "casterr"
          \/ schema[f].required /\ ~checkRequired(schema[f].type, c)

\* the sub-document a value is cast to
subdocValue(schema, v) ==
  Obj([f \in pathsSet(schema, v) |-> castLeaf(schema[f].type, GetProp(v, f))])

\* lineItems: [LineItemSchema]; an absent array defaults to []
lineItemsInvalid(l) ==
  /\ l.t # "undef"
  /\ \/ l.t # "arr"
     \/ \E i \in 1..Len(l.a) : subdocInvalid(LineItemSchema, l.a[i])

lineItemsValue(l) ==
  IF l.t = "undef" THEN Arr(<<>>)
  ELSE Arr([i \in 1..Len(l.a) |-> subdocValue(LineItemSchema, l.a[i])])

vendorInvalid(v) == subdocInvalid(VendorSchema, v)
vendorValue(v) == subdocValue(VendorSchema, v)

invoiceInvalid(v) ==
  \/ subdocInvalid(InvoiceDataSchema, v)
  \/ lineItemsInvalid(GetProp(v, "lineItems"))

invoiceValue(v) ==
  LET leaves == subdocValue(InvoiceDataSchema, v).o
  IN Obj([f \in DOMAIN leaves \cup {"lineItems"} |->
            IF f = "lineItems" THEN lineItemsValue(GetProp(v, "lineItems")) ELSE leaves[f]])

\* the top-level String paths fileId and fileName
topStringInvalid(v) ==
  castString(v).t = "casterr" \/ ~checkRequired("String", castString(v))

\* _id of a payload: a string that casts to an ObjectId
castObjectId(v) == IF v.t = "num" /\ v.n # NotAnObjectId THEN v.n ELSE NotAnObjectId

\* the page cap of the list (.limit(100))
limit == 100

\* ---- $regex with $options: 'i', on the characters of the modelled terms ----
\* '.', '*' and '(' are the regular-expression operators among them
toLowerCase(c) == IF c = "A" THEN "a" ELSE IF c = "B" THEN "b" ELSE c

\* the pattern does not compile: a '(' that is never closed, or a '*' with
\* nothing to repeat
regexError(q) ==
  \E i \in 1..Len(q) :
    \/ q[i] = "("
    \/ q[i] = "*" /\ (i = 1 \/ q[i - 1] = "*")

\* the compiled pattern: one entry per character, or per character and the
\* '*' that follows it
RECURSIVE regexAtoms(_)
regexAtoms(q) ==
  IF q = <<>> THEN <<>>
  ELSE IF Len(q) >= 2 /\ q[2] = "*"
  THEN <<[c |-> q[1], star |-> TRUE]>> \o regexAtoms(SubSeq(q, 3, Len(q)))
  ELSE <<[c |-> q[1], star |-> FALSE]>> \o regexAtoms(Tail(q))

atomMatches(a, ch) == a.c = "." \/ toLowerCase(a.c) = toLowerCase(ch)

\* the pattern matches a prefix of s
RECURSIVE matchHere(_, _)
matchHere(re, s) ==
  IF re = <<>> THEN TRUE
  ELSE IF re[1].star
  THEN \/ matchHere(Tail(re), s)
       \/ s # <<>> /\ atomMatches(re[1], s[1]) /\ matchHere(re, Tail(s))
  ELSE s # <<>> /\ atomMatches(re[1], s[1]) /\ matchHere(Tail(re), Tail(s))

\* { field: { $regex: q, $options: 'i' } }: only a string field matches, and
\* the pattern may match anywhere in it
regexMatch(q, v) ==
  /\ v.t = "str"
  /\ \E i \in 1..(Len(v.s) + 1) : matchHere(regexAtoms(q), SubSeq(v.s, i, Len(v.s)))

\* ---- the collection ----
Doc(id, fileId, fileName, vendor, invoice, createdAt, updatedAt) ==
  [_id |-> id, fileId |-> fileId, fileName |-> fileName, vendor |-> vendor,
   invoice |-> invoice, createdAt |-> createdAt, updatedAt |-> updatedAt]

\* positions of the documents with the id
positionsOf(coll, id) == {i \in 1..Len(coll) : coll[i]._id = id}
findById(coll, id) == coll[CHOOSE i \in positionsOf(coll, id) : TRUE]

\* the sort with the direction reversed: oldest first
sortByCreatedAtOldestFirst(found, natural) ==
  LET order == SortSeq([i \in 1..Len(found) |-> i],
                       LAMBDA i, j :
                         \/ found[i].createdAt < found[j].createdAt
                         \/ /\ found[i].createdAt = found[j].createdAt
                            /\ IF natural THEN i < j ELSE i > j)
  IN [k \in 1..Len(found) |-> found[order[k]]]

\* .sort({ createdAt: -1 }); the order of documents with equal createdAt is
\* not defined: natural says whether they come out in insertion order or in
\* its reverse
sortByCreatedAt(found, natural) ==
  LET order == SortSeq([i \in 1..Len(found) |-> i],
                       LAMBDA i, j :
                         \/ found[i].createdAt > found[j].createdAt
                         \/ /\ found[i].createdAt = found[j].createdAt
                            /\ IF natural THEN i < j ELSE i > j)
  IN [k \in 1..Len(found) |-> found[order[k]]]

limitTo(found, n) == SubSeq(found, 1, IF Len(found) < n THEN Len(found) ELSE n)

\* ---- responses and the log of requests ----
\* data: the documents of the body (none, the one of data, or the list);
\* count: the body's count, -1 when it has none
InvRes(status, error, data, count) ==
  [status |-> status, error |-> error, data |-> data, count |-> count]

\* one entry of the log: the request (op, id, q, body), the time the handler
\* read, the response, and the collection and the histories as they were
\* when the request arrived
Entry(op, id, q, body, t, res) ==
  [op |-> op, id |-> id, q |-> q, body |-> body, t |-> t,
   status |-> res.status, error |-> res.error, data |-> res.data, count |-> res.count,
   before |-> invoices, deleted |-> iDeleted, assigned |-> iAssigned]

\* GET /api/invoices (lines 7-34)
listResponse(q, natural) ==
  IF Truthy(q) /\ IsString(q)
  THEN IF regexError(q.s)
       THEN InvRes(500, "Failed to fetch invoices", <<>>, -1)
       ELSE LET found ==
                  SelectSeq(invoices,
                            LAMBDA d : \/ regexMatch(q.s, GetProp(d.vendor, "name"))
                                       \/ regexMatch(q.s, GetProp(d.invoice, "number")))
                page == limitTo(sortByCreatedAt(found, natural), limit)
            IN InvRes(200, "", page, Len(page))
  ELSE LET page == limitTo(sortByCreatedAt(invoices, natural), limit)
       IN InvRes(200, "", page, Len(page))

ListInvoices(q, natural) ==
  /\ Len(iLog) < MaxRequests
  /\ iLog' = Append(iLog, Entry("list", NotAnObjectId, q, Undef, now, listResponse(q, natural)))
  /\ UNCHANGED <<invoices, now, nextOid, iDeleted, iAssigned>>

\* GET /api/invoices/:id (lines 37-54); findById rejects with a CastError
\* when the id is no ObjectId
getResponse(id) ==
  IF id = NotAnObjectId THEN InvRes(500, "Failed to fetch invoice", <<>>, -1)
  ELSE IF positionsOf(invoices, id) = {} THEN InvRes(404, "Invoice not found", <<>>, -1)
  ELSE InvRes(200, "", <<findById(invoices, id)>>, -1)

GetInvoice(id) ==
  /\ Len(iLog) < MaxRequests
  /\ iLog' = Append(iLog, Entry("get", id, Undef, Undef, now, getResponse(id)))
  /\ UNCHANGED <<invoices, now, nextOid, iDeleted, iAssigned>>

\* the presence check of line 62
missingRequired(invoiceData) ==
  \/ ~Truthy(GetProp(invoiceData, "fileId"))
  \/ ~Truthy(GetProp(invoiceData, "fileName"))
  \/ ~Truthy(GetProp(invoiceData, "vendor"))
  \/ ~Truthy(GetProp(invoiceData, "invoice"))

\* new Invoice(invoiceData): _id and createdAt are the payload's when it
\* carries them, else a generated ObjectId and Date.now
newInvoice(invoiceData, t) ==
  Doc(IF GetProp(invoiceData, "_id").t = "undef" THEN nextOid
      ELSE castObjectId(GetProp(invoiceData, "_id")),
      castString(GetProp(invoiceData, "fileId")),
      castString(GetProp(invoiceData, "fileName")),
      vendorValue(GetProp(invoiceData, "vendor")),
      invoiceValue(GetProp(invoiceData, "invoice")),
      IF GetProp(invoiceData, "createdAt").t = "undef" THEN t
      ELSE GetProp(invoiceData, "createdAt").n,
      Undef)

\* invoice.save() rejects: a validation error, or a duplicate _id
saveRejects(invoiceData) ==
  \/ GetProp(invoiceData, "_id").t # "undef"
     /\ castObjectId(GetProp(invoiceData, "_id")) = NotAnObjectId
  \/ topStringInvalid(GetProp(invoiceData, "fileId"))
  \/ topStringInvalid(GetProp(invoiceData, "fileName"))
  \/ vendorInvalid(GetProp(invoiceData, "vendor"))
  \/ invoiceInvalid(GetProp(invoiceData, "invoice"))
  \/ positionsOf(invoices, castObjectId(GetProp(invoiceData, "_id"))) # {}

\* POST /api/invoices (lines 57-77)
CreateInvoice(invoiceData, t) ==
  /\ Len(iLog) < MaxRequests
  /\ IF missingRequired(invoiceData)
     THEN /\ iLog' = Append(iLog, Entry("create", NotAnObjectId, Undef, invoiceData, now,
                                        InvRes(400, "Missing required fields", <<>>, -1)))
          /\ UNCHANGED <<invoices, now, nextOid, iDeleted, iAssigned>>
     ELSE IF saveRejects(invoiceData)
     THEN /\ iLog' = Append(iLog, Entry("create", NotAnObjectId, Undef, invoiceData, now,
                                        InvRes(500, "Failed to create invoice", <<>>, -1)))
          /\ nextOid' = IF GetProp(invoiceData, "_id").t = "undef" THEN nextOid + 1 ELSE nextOid
          /\ UNCHANGED <<invoices, now, iDeleted, iAssigned>>
     ELSE LET invoice == newInvoice(invoiceData, t)
          IN /\ invoices' = Append(invoices, invoice)
             /\ iLog' = Append(iLog, Entry("create", invoice._id, Undef, invoiceData, t,
                                           InvRes(201, "", <<invoice>>, -1)))
             /\ nextOid' = IF invoice._id = nextOid THEN nextOid + 1 ELSE nextOid
             /\ iAssigned' = iAssigned \cup {invoice._id}
             /\ now' = t
             /\ UNCHANGED iDeleted

\* the update does not reach the store: the id is no ObjectId, an update
\* validator (runValidators: true) fails, or _id would change
updateRejects(id, body) ==
  \/ id = NotAnObjectId
  \/ GetProp(body, "fileId").t # "undef" /\ topStringInvalid(GetProp(body, "fileId"))
  \/ GetProp(body, "fileName").t # "undef" /\ topStringInvalid(GetProp(body, "fileName"))
  \/ GetProp(body, "vendor").t # "undef" /\ vendorInvalid(GetProp(body, "vendor"))
  \/ GetProp(body, "invoice").t # "undef" /\ invoiceInvalid(GetProp(body, "invoice"))
  \/ GetProp(body, "_id").t # "undef" /\ castObjectId(GetProp(body, "_id")) # id

\* the document after $set of { ...req.body, updatedAt: new Date() }: every
\* path of the schema the body carries is replaced, sub-documents as a whole
updatedDoc(doc, body, t) ==
  Doc(doc._id,
      IF GetProp(body, "fileId").t = "undef" THEN doc.fileId
      ELSE castString(GetProp(body, "fileId")),
      IF GetProp(body, "fileName").t = "undef" THEN doc.fileName
      ELSE castString(GetProp(body, "fileName")),
      IF GetProp(body, "vendor").t = "undef" THEN doc.vendor
      ELSE vendorValue(GetProp(body, "vendor")),
      IF GetProp(body, "invoice").t = "undef" THEN doc.invoice
      ELSE invoiceValue(GetProp(body, "invoice")),
      IF GetProp(body, "createdAt").t = "undef" THEN doc.createdAt
      ELSE GetProp(body, "createdAt").n,
      Num(t))

\* PUT /api/invoices/:id (lines 80-102); findByIdAndUpdate is one atomic
\* operation of the store, without upsert
UpdateInvoice(id, body, t) ==
  /\ Len(iLog) < MaxRequests
  /\ IF updateRejects(id, body)
     THEN /\ iLog' = Append(iLog, Entry("update", id, Undef, body, now,
                                        InvRes(500, "Failed to update invoice", <<>>, -1)))
          /\ UNCHANGED <<invoices, now, nextOid, iDeleted, iAssigned>>
     ELSE IF positionsOf(invoices, id) = {}
     THEN /\ iLog' = Append(iLog, Entry("update", id, Undef, body, now,
                                        InvRes(404, "Invoice not found", <<>>, -1)))
          /\ UNCHANGED <<invoices, now, nextOid, iDeleted, iAssigned>>
     ELSE LET invoice == updatedDoc(findById(invoices, id), body, t)
          IN /\ invoices' = [i \in 1..Len(invoices) |->
                               IF invoices[i]._id = id THEN invoice ELSE invoices[i]]
             /\ iLog' = Append(iLog, Entry("update", id, Undef, body, t,
                                           InvRes(200, "", <<invoice>>, -1)))
             /\ now' = t
             /\ UNCHANGED <<nextOid, iDeleted, iAssigned>>

\* DELETE /api/invoices/:id (lines 105-122); findByIdAndDelete is one atomic
\* operation of the store
DeleteInvoice(id) ==
  /\ Len(iLog) < MaxRequests
  /\ IF id = NotAnObjectId
     THEN /\ iLog' = Append(iLog, Entry("delete", id, Undef, Undef, now,
                                        InvRes(500, "Failed to delete invoice", <<>>, -1)))
          /\ UNCHANGED <<invoices, iDeleted>>
     ELSE IF positionsOf(invoices, id) = {}
     THEN /\ iLog' = Append(iLog, Entry("delete", id, Undef, Undef, now,
                                        InvRes(404, "Invoice not found", <<>>, -1)))
          /\ UNCHANGED <<invoices, iDeleted>>
     ELSE /\ invoices' = SelectSeq(invoices, LAMBDA d : d._id # id)
          /\ iLog' = Append(iLog, Entry("delete", id, Undef, Undef, now,
                                        InvRes(200, "", <<>>, -1)))
          /\ iDeleted' = iDeleted \cup {id}
  /\ UNCHANGED <<now, nextOid, iAssigned>>

\* ---- the requests the model draws from ----
Without(r, f) == [g \in DOMAIN r \ {f} |-> r[g]]
With(r, f, v) == [g \in DOMAIN r \cup {f} |-> IF g = f THEN v ELSE r[g]]

Item1 ==
  [description |-> Str(<<"z">>), unitPrice |-> Num(5), quantity |-> Num(1), total |-> Num(5)]

Vendor1 == [name |-> Str(<<"Z", "e", "d">>)]

Invoice1 ==
  [number |-> Str(<<"N", "2">>), date |-> Str(<<"e">>), lineItems |-> Arr(<<Obj(Item1)>>)]

Payload0 ==
  [fileId |-> Str(<<"f", "1">>), fileName |-> Str(<<"a", ".", "p", "d", "f">>),
   vendor |-> Obj(Vendor0), invoice |-> Obj(Invoice0)]

\* the ids a request names: the ObjectIds up to MaxAsked, and a string that
\* is none
AskedIds == {NotAnObjectId} \cup 1..MaxAsked

\* a complete payload, and the payloads that differ from it in one place
CreateBodies ==
  {Obj(Payload0)}
  \cup {Obj(Without(Payload0, f)) : f \in DOMAIN Payload0}
  \cup {Obj([Payload0 EXCEPT !.fileId = Str(<<>>)])}
  \cup {Obj([Payload0 EXCEPT !.vendor = v]) :
          v \in {Str(<<"x">>), Obj(Vendor1), Obj([Vendor0 EXCEPT !.name = Str(<<>>)]),
                 Obj([Vendor0 EXCEPT !.name = Num(7)]), Obj(With(Vendor0, "phone", Str(<<"5">>)))}}
  \cup {Obj([Payload0 EXCEPT !.invoice = Obj(i)]) :
          i \in {Without(Invoice0, "date"), Without(Invoice0, "lineItems"),
                 [Invoice0 EXCEPT !.subtotal = Str(<<"1", "2">>)],
                 [Invoice0 EXCEPT !.lineItems = Arr(<<>>)],
                 [Invoice0 EXCEPT !.lineItems = Arr(<<Obj(Item0), Obj(Item1)>>)],
                 [Invoice0 EXCEPT !.lineItems =
                    Arr(<<Obj([Item1 EXCEPT !.description = Str(<<>>)])>>)]}}
  \cup {Obj(With(Payload0, "_id", Num(n))) : n \in AskedIds}
  \cup {Obj(With(Payload0, "createdAt", Num(0)))}

\* the payloads of an update: the form's (its own _id included), a partial
\* one, one that fails validation, and one that carries createdAt
UpdateBodies(id) ==
  {EmptyObj,
   Obj([vendor |-> Obj(Vendor1), invoice |-> Obj(Invoice1)]),
   Obj(With(Payload0, "_id", Num(id))),
   Obj([vendor |-> Obj(Vendor1)]),
   Obj([vendor |-> Obj([Vendor0 EXCEPT !.name = Str(<<>>)])]),
   Obj([vendor |-> Obj(Vendor1), invoice |-> Obj(Invoice1), createdAt |-> Num(0)])}

TermChars == {"a", "A", "b", ".", "*", "("}
RECURSIVE TermsOfLength(_)
TermsOfLength(n) ==
  IF n = 0 THEN {<<>>}
  ELSE {<<c>> \o s : c \in TermChars, s \in TermsOfLength(n - 1)}
\* req.query.q: absent, empty, or a term
Queries == {Undef} \cup UNION {{Str(s) : s \in TermsOfLength(n)} : n \in 0..MaxTerm}

InvoicesNext ==
  \/ \E natural \in BOOLEAN : ListInvoices(Undef, natural)
  \/ \E id \in AskedIds : GetInvoice(id)
  \/ \E invoiceData \in CreateBodies, t \in {now, now + 1} : CreateInvoice(invoiceData, t)
  \/ \E id \in AskedIds, t \in {now, now + 1} :
       \E body \in UpdateBodies(id) : UpdateInvoice(id, body, t)
  \/ \E id \in AskedIds : DeleteInvoice(id)

\* one list request on the collection as it stands
ListNext == \E q \in Queries, natural \in BOOLEAN : iLog = <<>> /\ ListInvoices(q, natural)

\* ---- the collections a specification starts from ----
Named(id, name, number, createdAt) ==
  Doc(id, Payload0.fileId, Payload0.fileName, Obj([name |-> Str(name)]),
      Obj([number |-> Str(number), date |-> Str(<<"d">>), lineItems |-> Arr(<<>>)]),
      createdAt, Undef)

\* limit + 1 documents, created two per millisecond
FullCollection ==
  [i \in 1..(limit + 1) |-> Named(i, <<"A", "b">>, <<"b">>, 1 + (i \div 2))]

\* the state of the store and of its histories: each is reached by creates
\* and deletes from the empty collection
StoreState(coll, d) ==
  [invoices |-> coll, now |-> IF coll = <<>> THEN 1 ELSE coll[Len(coll)].createdAt,
   nextOid |-> Len(coll) + Cardinality(d) + 1, iDeleted |-> d,
   iAssigned |-> d \cup {coll[i]._id : i \in 1..Len(coll)}]

Names == {<<"A", "b">>, <<"a", ".">>, <<"b", "(">>}
Numbers == {<<"B">>, <<"a", "*">>}

ListStates ==
  {StoreState(<<>>, {}), StoreState(FullCollection, {})}
  \cup {StoreState(<<Named(1, n, k, 1)>>, {}) : n \in Names, k \in Numbers}
  \cup {StoreState(<<Named(1, n, k, 1), Named(2, <<"B">>, <<"b">>, t)>>, {}) :
          n \in Names, k \in Numbers, t \in {1, 2}}

CrudStates ==
  {StoreState(<<>>, {}),
   StoreState(<<>>, {1}),
   StoreState(<<Doc(1, Payload0.fileId, Payload0.fileName, Obj(Vendor0), Obj(Invoice0),
                    1, Undef)>>, {})}

(***************************************************************************)
(* The invoice form of the web application (InvoiceForm) in the invoice    *)
(* page: formData is a JavaScript value, the handlers are computed on it.  *)
(***************************************************************************)
VARIABLES
  \* the form's state: formData, loading, extracting
  formData, fLoading, fExtracting,
  \* the request of the form in flight: where it is, and what it is
  fPc, fReq,
  \* the last thing that happened to the form, and formData before it
  fPrev, fLast,
  \* the save requests the form has issued, each with the identity the form
  \* held and with the identity a successful response returned
  fSaves,
  \* the user's actions so far, and whether the user edited the form while
  \* the extraction in flight was under way
  fSteps, fEdited

formVars == <<formData, fLoading, fExtracting, fPc, fReq, fPrev, fLast, fSaves, fSteps, fEdited>>

\* getDefaultFormData (lines 21-40)
getDefaultFormData(fileId, fileName) ==
  Obj([fileId |-> fileId, fileName |-> fileName,
       vendor |-> Obj([name |-> Str(<<>>), address |-> Str(<<>>), taxId |-> Str(<<>>)]),
       invoice |->
         Obj([number |-> Str(<<>>), date |-> Str(<<>>), currency |-> Str(<<"U", "S", "D">>),
              subtotal |-> Num(0), taxPercent |-> Num(0), total |-> Num(0),
              poNumber |-> Str(<<>>), poDate |-> Str(<<>>), lineItems |-> Arr(<<>>)])])

\* { ...a, ...b } for two objects
Spread(a, b) == [f \in DOMAIN a \cup DOMAIN b |-> IF f \in DOMAIN b THEN b[f] ELSE a[f]]

\* safeInitialData of the effect on initialData (lines 62-82)
safeInitialData(initialData, fileId, fileName) ==
  LET vendor == GetProp(initialData, "vendor")
      invoice == GetProp(initialData, "invoice")
      li == OptProp(invoice, "lineItems")
  IN Obj(Spread(initialData.o,
       [fileId |-> OrElse(GetProp(initialData, "fileId"), fileId),
        fileName |-> OrElse(GetProp(initialData, "fileName"), fileName),
        vendor |->
          Obj([name |-> OrElse(OptProp(vendor, "name"), Str(<<>>)),
               address |-> OrElse(OptProp(vendor, "address"), Str(<<>>)),
               taxId |-> OrElse(OptProp(vendor, "taxId"), Str(<<>>))]),
        invoice |->
          Obj([number |-> OrElse(OptProp(invoice, "number"), Str(<<>>)),
               date |-> OrElse(OptProp(invoice, "date"), Str(<<>>)),
               currency |-> OrElse(OptProp(invoice, "currency"), Str(<<"U", "S", "D">>)),
               subtotal |-> OrElse(JSNumber(OptProp(invoice, "subtotal")), Num(0)),
               taxPercent |-> OrElse(JSNumber(OptProp(invoice, "taxPercent")), Num(0)),
               total |-> OrElse(JSNumber(OptProp(invoice, "total")), Num(0)),
               poNumber |-> OrElse(OptProp(invoice, "poNumber"), Str(<<>>)),
               poDate |-> OrElse(OptProp(invoice, "poDate"), Str(<<>>)),
               lineItems |-> IF IsArray(li) THEN li ELSE Arr(<<>>)])]))

\* the element mapper of result.data.invoice.lineItems.map(...) (lines 122-127)
extractedItem(item) ==
  Obj([description |-> JSString(OrElse(GetProp(item, "description"), Str(<<>>))),
       unitPrice |-> OrElse(JSNumber(GetProp(item, "unitPrice")), Num(0)),
       quantity |-> OrElse(JSNumber(GetProp(item, "quantity")), Num(1)),
       total |-> OrElse(JSNumber(GetProp(item, "total")), Num(0))])

\* extractedData of handleExtract (lines 106-129), for the data of a response
extractedData(data) ==
  LET vendor == GetProp(data, "vendor")
      invoice == GetProp(data, "invoice")
      li == OptProp(invoice, "lineItems")
  IN [vendor |->
        Obj([name |-> OrElse(OptProp(vendor, "name"), Str(<<>>)),
             address |-> OrElse(OptProp(vendor, "address"), Str(<<>>)),
             taxId |-> OrElse(OptProp(vendor, "taxId"), Str(<<>>))]),
      invoice |->
        Obj([number |-> OrElse(OptProp(invoice, "number"), Str(<<>>)),
             date |-> OrElse(OptProp(invoice, "date"), Str(<<>>)),
             currency |-> OrElse(OptProp(invoice, "currency"), Str(<<"U", "S", "D">>)),
             subtotal |-> OrElse(JSNumber(OptProp(invoice, "subtotal")), Num(0)),
             taxPercent |-> OrElse(JSNumber(OptProp(invoice, "taxPercent")), Num(0)),
             total |-> OrElse(JSNumber(OptProp(invoice, "total")), Num(0)),
             poNumber |-> OrElse(OptProp(invoice, "poNumber"), Str(<<>>)),
             poDate |-> OrElse(OptProp(invoice, "poDate"), Str(<<>>)),
             lineItems |->
               IF IsArray(li) THEN Arr([i \in 1..Len(li.a) |-> extractedItem(li.a[i])])
               ELSE Arr(<<>>)])]

\* String.prototype.trim
RECURSIVE trimStart(_)
trimStart(s) == IF s # <<>> /\ s[1] = " " THEN trimStart(Tail(s)) ELSE s
RECURSIVE trimEnd(_)
trimEnd(s) ==
  IF s # <<>> /\ s[Len(s)] = " " THEN trimEnd(SubSeq(s, 1, Len(s) - 1)) ELSE s
trim(s) == trimEnd(trimStart(s))

\* v?.trim(): undefined for null and undefined, the trimmed string for a
\* string; for any other value the call throws a TypeError
optTrimThrows(v) == ~IsNullish(v) /\ ~IsString(v)
optTrim(v) == IF IsNullish(v) THEN Undef ELSE Str(trim(v.s))

\* validateFormData with the required texts tested as they are, untrimmed
validateFormDataUntrimmed(current) ==
  LET name == OptProp(GetProp(current, "vendor"), "name")
      number == OptProp(GetProp(current, "invoice"), "number")
      date == OptProp(GetProp(current, "invoice"), "date")
  IN IF ~Truthy(GetProp(current, "fileId")) THEN "File ID is missing"
     ELSE IF ~Truthy(GetProp(current, "fileName")) THEN "File name is missing"
     ELSE IF optTrimThrows(name) THEN "throws"
     ELSE IF ~Truthy(name) THEN "Vendor name is required"
     ELSE IF optTrimThrows(number) THEN "throws"
     ELSE IF ~Truthy(number) THEN "Invoice number is required"
     ELSE IF optTrimThrows(date) THEN "throws"
     ELSE IF ~Truthy(date) THEN "Invoice date is required"
     ELSE IF ~IsArray(OptProp(GetProp(current, "invoice"), "lineItems"))
     THEN "Line items array is missing"
     ELSE "valid"

\* validateFormData (lines 171-196): "throws", or the message of the failed
\* check, or "valid"
validateFormData(current) ==
  LET name == OptProp(GetProp(current, "vendor"), "name")
      number == OptProp(GetProp(current, "invoice"), "number")
      date == OptProp(GetProp(current, "invoice"), "date")
  IN IF ~Truthy(GetProp(current, "fileId")) THEN "File ID is missing"
     ELSE IF ~Truthy(GetProp(current, "fileName")) THEN "File name is missing"
     ELSE IF optTrimThrows(name) THEN "throws"
     ELSE IF ~Truthy(optTrim(name)) THEN "Vendor name is required"
     ELSE IF optTrimThrows(number) THEN "throws"
     ELSE IF ~Truthy(optTrim(number)) THEN "Invoice number is required"
     ELSE IF optTrimThrows(date) THEN "throws"
     ELSE IF ~Truthy(optTrim(date)) THEN "Invoice date is required"
     ELSE IF ~IsArray(OptProp(GetProp(current, "invoice"), "lineItems"))
     THEN "Line items array is missing"
     ELSE "valid"

\* (v || '').trim() throws when v is truthy and no string
orEmptyTrimThrows(v) == Truthy(v) /\ ~IsString(v)
orEmptyTrim(v) == Str(trim(OrElse(v, Str(<<>>)).s))

\* building invoicePayload throws (lines 216-227)
payloadThrows(current) ==
  LET vendor == GetProp(current, "vendor")
      invoice == GetProp(current, "invoice")
  IN \/ orEmptyTrimThrows(OptProp(vendor, "name"))
     \/ orEmptyTrimThrows(OptProp(vendor, "address"))
     \/ orEmptyTrimThrows(OptProp(vendor, "taxId"))
     \/ orEmptyTrimThrows(OptProp(invoice, "number"))
     \/ orEmptyTrimThrows(OptProp(invoice, "poNumber"))

\* the element mapper of formData.invoice.lineItems.map(...) (lines 230-235)
payloadItem(item) ==
  Obj([description |-> Str(trim(ToStringSeq(OrElse(OptProp(item, "description"), Str(<<>>))))),
       unitPrice |-> OrElse(JSNumber(OptProp(item, "unitPrice")), Num(0)),
       quantity |-> OrElse(JSNumber(OptProp(item, "quantity")), Num(1)),
       total |-> OrElse(JSNumber(OptProp(item, "total")), Num(0))])

\* invoicePayload of handleSave (lines 212-242); fileId and fileName are the
\* form's props
invoicePayload(current, fileId, fileName) ==
  LET vendor == GetProp(current, "vendor")
      invoice == GetProp(current, "invoice")
      li == OptProp(invoice, "lineItems")
      payload ==
        [fileId |-> OrElse(GetProp(current, "fileId"), fileId),
         fileName |-> OrElse(GetProp(current, "fileName"), fileName),
         vendor |->
           Obj([name |-> orEmptyTrim(OptProp(vendor, "name")),
                address |-> orEmptyTrim(OptProp(vendor, "address")),
                taxId |-> orEmptyTrim(OptProp(vendor, "taxId"))]),
         invoice |->
           Obj([number |-> orEmptyTrim(OptProp(invoice, "number")),
                date |-> OrElse(OptProp(invoice, "date"), Str(<<>>)),
                currency |-> OrElse(OptProp(invoice, "currency"), Str(<<"U", "S", "D">>)),
                subtotal |-> OrElse(JSNumber(OptProp(invoice, "subtotal")), Num(0)),
                taxPercent |-> OrElse(JSNumber(OptProp(invoice, "taxPercent")), Num(0)),
                total |-> OrElse(JSNumber(OptProp(invoice, "total")), Num(0)),
                poNumber |-> orEmptyTrim(OptProp(invoice, "poNumber")),
                poDate |-> OrElse(OptProp(invoice, "poDate"), Str(<<>>)),
                lineItems |->
                  IF IsArray(li) THEN Arr([i \in 1..Len(li.a) |-> payloadItem(li.a[i])])
                  ELSE Arr(<<>>)])]
  IN IF Truthy(GetProp(current, "_id"))
     THEN Obj(With(payload, "_id", GetProp(current, "_id")))
     ELSE Obj(payload)

\* addLineItem (lines 309-331)
addLineItem(prev) ==
  IF ~Truthy(OptProp(prev, "invoice")) THEN prev
  ELSE LET invoice == GetProp(prev, "invoice")
           currentLineItems ==
             IF IsArray(GetProp(invoice, "lineItems")) THEN GetProp(invoice, "lineItems").a
             ELSE <<>>
       IN Obj(Spread(prev.o,
            [invoice |->
               Obj(Spread(invoice.o,
                 [lineItems |->
                    Arr(Append(currentLineItems,
                               Obj([description |-> Str(<<>>), unitPrice |-> Num(0),
                                    quantity |-> Num(1), total |-> Num(0)])))]))]))

\* the array without the element at the (0-based) index
filterIndex(a, index) ==
  IF index < 0 \/ index >= Len(a) THEN a
  ELSE [k \in 1..(Len(a) - 1) |-> IF k <= index THEN a[k] ELSE a[k + 1]]

\* removeLineItem (lines 333-349)
removeLineItem(prev, index) ==
  IF ~IsArray(OptProp(OptProp(prev, "invoice"), "lineItems")) THEN prev
  ELSE LET invoice == GetProp(prev, "invoice")
       IN Obj(Spread(prev.o,
            [invoice |->
               Obj(Spread(invoice.o,
                 [lineItems |-> Arr(filterIndex(GetProp(invoice, "lineItems").a, index))]))]))

\* a * b for two numbers
Times(a, b) == IF a.t = "num" /\ b.t = "num" THEN Num(a.n * b.n) ELSE NaN

\* updateLineItem with the product taken from the item as it was
updateLineItemStale(prev, index, field, value) ==
  IF ~IsArray(OptProp(OptProp(prev, "invoice"), "lineItems")) THEN prev
  ELSE IF index < 0 \/ index >= Len(GetProp(GetProp(prev, "invoice"), "lineItems").a) THEN prev
  ELSE
    LET invoice == GetProp(prev, "invoice")
        lineItems == GetProp(invoice, "lineItems").a
        currentItem == lineItems[index + 1]
        edited == Spread(currentItem.o, [g \in {field} |-> value])
        newItem ==
          IF field \in {"unitPrice", "quantity"}
          THEN Obj(Spread(edited,
                 [total |-> Times(OrElse(JSNumber(GetProp(currentItem, "unitPrice")), Num(0)),
                                  OrElse(JSNumber(GetProp(currentItem, "quantity")), Num(0)))]))
          ELSE Obj(edited)
    IN Obj(Spread(prev.o,
         [invoice |->
            Obj(Spread(invoice.o,
              [lineItems |->
                 Arr([k \in 1..Len(lineItems) |->
                        IF k = index + 1 THEN newItem ELSE lineItems[k]])]))]))

\* updateLineItem (lines 351-388); index is 0-based
updateLineItem(prev, index, field, value) ==
  IF ~IsArray(OptProp(OptProp(prev, "invoice"), "lineItems")) THEN prev
  ELSE IF index < 0 \/ index >= Len(GetProp(GetProp(prev, "invoice"), "lineItems").a) THEN prev
  ELSE
    LET invoice == GetProp(prev, "invoice")
        lineItems == GetProp(invoice, "lineItems").a
        currentItem == lineItems[index + 1]
    IN IF ~Truthy(currentItem) THEN prev
       ELSE
         LET edited == Spread(currentItem.o, [g \in {field} |-> value])
             unitPrice ==
               IF field = "unitPrice" THEN OrElse(JSNumber(value), Num(0))
               ELSE OrElse(JSNumber(GetProp(currentItem, "unitPrice")), Num(0))
             quantity ==
               IF field = "quantity" THEN OrElse(JSNumber(value), Num(0))
               ELSE OrElse(JSNumber(GetProp(currentItem, "quantity")), Num(0))
             newItem ==
               IF field \in {"unitPrice", "quantity"}
               THEN Obj(Spread(edited, [total |-> Times(unitPrice, quantity)]))
               ELSE Obj(edited)
         IN Obj(Spread(prev.o,
              [invoice |->
                 Obj(Spread(invoice.o,
                   [lineItems |->
                      Arr([k \in 1..Len(lineItems) |->
                             IF k = index + 1 THEN newItem ELSE lineItems[k]])]))]))

\* the longest prefix of decimal digits
RECURSIVE digitPrefix(_)
digitPrefix(s) ==
  IF s # <<>> /\ IsDigit(s[1]) THEN <<s[1]>> \o digitPrefix(Tail(s)) ELSE <<>>

\* parseFloat and parseInt on the modelled texts: the number the leading
\* digits spell, NaN when there is none
parseFloat(s) == IF digitPrefix(s) = <<>> THEN NaN ELSE Num(DigitsToNat(digitPrefix(s)))
parseInt(s) == IF digitPrefix(s) = <<>> THEN NaN ELSE Num(DigitsToNat(digitPrefix(s)))

\* the value an input of the line-item row passes to updateLineItem
\* (lines 655, 666, 677, 689)
onChangeValue(field, text) ==
  CASE field = "description" -> Str(text)
    [] field = "quantity" -> OrElse(parseInt(text), Num(0))
    [] OTHER -> OrElse(parseFloat(text), Num(0))

\* the props of the form: the file of the page
PropFileId == Payload0.fileId
PropFileName == Payload0.fileName

\* JSON of a stored document, as a response carries it
docJson(doc) ==
  LET fields ==
        [_id |-> Num(doc._id), fileId |-> doc.fileId, fileName |-> doc.fileName,
         vendor |-> doc.vendor, invoice |-> doc.invoice, createdAt |-> Num(doc.createdAt)]
  IN IF doc.updatedAt.t = "undef" THEN Obj(fields)
     ELSE Obj(With(fields, "updatedAt", doc.updatedAt))

\* JSON of the data of a successful extraction
extractionJson(value) ==
  Obj([vendor |-> Obj(value.vendor),
       invoice |->
         Obj([f \in DOMAIN value.invoice |->
                IF f = "lineItems"
                THEN Arr([i \in 1..Len(value.invoice.lineItems) |->
                            Obj(value.invoice.lineItems[i])])
                ELSE value.invoice[f]])])

NoAction == [kind |-> "none", index |-> 0, field |-> "", value |-> Undef]
Action(kind, index, field, value) ==
  [kind |-> kind, index |-> index, field |-> field, value |-> value]
NoRequest == [kind |-> "none", id |-> NotAnObjectId, payload |-> Undef]

\* ---- editing ----
\* onChange of an input of line-item row index
UpdateLineItem(index, field, text) ==
  /\ fSteps < MaxSteps
  /\ formData' = updateLineItem(formData, index, field, onChangeValue(field, text))
  /\ fPrev' = formData
  /\ fLast' = Action("updateLineItem", index, field, onChangeValue(field, text))
  /\ fSteps' = fSteps + 1
  /\ fEdited' = (fEdited \/ fPc = "extractSent")
  /\ UNCHANGED <<fLoading, fExtracting, fPc, fReq, fSaves,
                 invoiceVars>>

\* the Add Item button (disabled while loading)
AddLineItem ==
  /\ fSteps < MaxSteps /\ ~fLoading
  /\ formData' = addLineItem(formData)
  /\ fPrev' = formData
  /\ fLast' = Action("addLineItem", 0, "", Undef)
  /\ fSteps' = fSteps + 1
  /\ fEdited' = (fEdited \/ fPc = "extractSent")
  /\ UNCHANGED <<fLoading, fExtracting, fPc, fReq, fSaves,
                 invoiceVars>>

\* the remove button of line-item row index (disabled while loading)
RemoveLineItem(index) ==
  /\ fSteps < MaxSteps /\ ~fLoading
  /\ formData' = removeLineItem(formData, index)
  /\ fPrev' = formData
  /\ fLast' = Action("removeLineItem", index, "", Undef)
  /\ fSteps' = fSteps + 1
  /\ fEdited' = (fEdited \/ fPc = "extractSent")
  /\ UNCHANGED <<fLoading, fExtracting, fPc, fReq, fSaves,
                 invoiceVars>>

\* onChange of the vendor name input (lines 457-460)
EditVendorName(text) ==
  /\ fSteps < MaxSteps
  /\ formData' =
       Obj(Spread(formData.o,
         [vendor |-> Obj(Spread(OrElse(GetProp(formData, "vendor"), EmptyObj).o,
                                [name |-> Str(text)]))]))
  /\ fPrev' = formData
  /\ fLast' = Action("editVendorName", 0, "name", Str(text))
  /\ fSteps' = fSteps + 1
  /\ fEdited' = (fEdited \/ fPc = "extractSent")
  /\ UNCHANGED <<fLoading, fExtracting, fPc, fReq, fSaves,
                 invoiceVars>>

\* onChange of the invoice date input (lines 525-528)
EditInvoiceDate(text) ==
  /\ fSteps < MaxSteps
  /\ formData' =
       Obj(Spread(formData.o,
         [invoice |-> Obj(Spread(OrElse(GetProp(formData, "invoice"), EmptyObj).o,
                                 [date |-> Str(text)]))]))
  /\ fPrev' = formData
  /\ fLast' = Action("editInvoiceDate", 0, "date", Str(text))
  /\ fSteps' = fSteps + 1
  /\ fEdited' = (fEdited \/ fPc = "extractSent")
  /\ UNCHANGED <<fLoading, fExtracting, fPc, fReq, fSaves,
                 invoiceVars>>

\* the texts typed into an input
Texts == {<<"4">>, <<"x">>}
Fields == {"description", "unitPrice", "quantity", "total"}
\* the row indexes of a call: those of the rows, one below and one above
Indexes ==
  LET li == OptProp(OptProp(formData, "invoice"), "lineItems")
  IN -1..(IF IsArray(li) THEN Len(li.a) ELSE 0)

EditorNext ==
  \/ \E index \in Indexes, field \in Fields, text \in Texts : UpdateLineItem(index, field, text)
  \/ AddLineItem
  \/ \E index \in Indexes : RemoveLineItem(index)

\* ---- extraction from the form ----
\* the parsed AI replies behind the modelled extraction responses
FormReplies ==
  {Obj([vendor |-> Obj(Vendor0), invoice |-> Obj(Invoice0)]),
   EmptyObj,
   Obj([vendor |-> Obj([Vendor0 EXCEPT !.name = Num(7)]),
        invoice |-> Obj([Invoice0 EXCEPT !.lineItems = Arr(<<Obj(Item0), Obj(Item1)>>)])]),
   Obj([vendor |-> Null,
        invoice |->
          Obj([Invoice0 EXCEPT
                 !.subtotal = Str(<<"1", "2">>),
                 !.lineItems =
                   Arr(<<Obj([Item0 EXCEPT !.quantity = Num(0), !.description = Num(7)])>>)])])}

\* the data of the successful responses of POST /api/extract for a model
ExtractResults(model) ==
  {extractionJson(IF model = "gemini" THEN normalizedDataGemini(p).value
                  ELSE normalizedDataGroq(p).value) : p \in FormReplies}

\* a click on an Extract button (lines 93-98; the buttons are disabled while
\* extracting or loading)
HandleExtract(model) ==
  /\ fSteps < MaxSteps /\ ~fExtracting /\ ~fLoading
  /\ fExtracting' = TRUE
  /\ fPc' = "extractSent"
  /\ fReq' = [kind |-> "extract", id |-> NotAnObjectId, payload |-> Str(<<model>>)]
  /\ fPrev' = formData
  /\ fLast' = Action("handleExtract", 0, model, Undef)
  /\ fSteps' = fSteps + 1
  /\ fEdited' = FALSE
  /\ UNCHANGED <<formData, fLoading, fSaves,
                 invoiceVars>>

\* handleExtract with the extracted fields laid over the form's
ExtractSettledMerging(ok, data) ==
  /\ fPc = "extractSent"
  /\ ok => data \in ExtractResults(fReq.payload.s[1])
  /\ IF ok
     THEN /\ formData' =
               Obj(Spread(formData.o,
                 [vendor |-> Obj(Spread(extractedData(data).vendor.o,
                                        GetProp(formData, "vendor").o)),
                  invoice |-> extractedData(data).invoice]))
          /\ fLast' = Action("extracted", 0, fReq.payload.s[1], data)
     ELSE /\ formData' = formData
          /\ fLast' = Action("extractFailed", 0, fReq.payload.s[1], Undef)
  /\ fPrev' = formData
  /\ fExtracting' = FALSE
  /\ fPc' = "idle"
  /\ fReq' = NoRequest
  /\ UNCHANGED <<fLoading, fSaves, fSteps, fEdited,
                 invoiceVars>>

\* api.extractData settles (lines 98-168): with a response carrying data, or
\* with an error
ExtractSettled(ok, data) ==
  /\ fPc = "extractSent"
  /\ ok => data \in ExtractResults(fReq.payload.s[1])
  /\ IF ok
     THEN /\ formData' = Obj(Spread(formData.o, extractedData(data)))
          /\ fLast' = Action("extracted", 0, fReq.payload.s[1], data)
     ELSE /\ formData' = formData
          /\ fLast' = Action("extractFailed", 0, fReq.payload.s[1], Undef)
  /\ fPrev' = formData
  /\ fExtracting' = FALSE
  /\ fPc' = "idle"
  /\ fReq' = NoRequest
  /\ UNCHANGED <<fLoading, fSaves, fSteps, fEdited,
                 invoiceVars>>

\* ---- saving from the form ----
Save(kind, id, held) ==
  [kind |-> kind, id |-> id, held |-> held, ok |-> FALSE, returned |-> Undef]

\* a click on Save (lines 198-251, up to the await; the button is disabled
\* while loading or extracting)
HandleSave ==
  /\ fSteps < MaxSteps /\ ~fLoading /\ ~fExtracting
  /\ fSteps' = fSteps + 1
  /\ fPrev' = formData
  /\ IF validateFormData(formData) # "valid"
     THEN /\ fLast' = Action("saveRefused", 0, validateFormData(formData), Undef)
          /\ UNCHANGED <<fLoading, fPc, fReq, fSaves>>
     ELSE IF payloadThrows(formData)
     THEN /\ fLast' = Action("saveFailed", 0, "", Undef)
          /\ UNCHANGED <<fLoading, fPc, fReq, fSaves>>
     ELSE LET invoicePayloadValue == invoicePayload(formData, PropFileId, PropFileName)
              held == GetProp(formData, "_id")
              kind == IF Truthy(held) THEN "update" ELSE "create"
              id == IF Truthy(held) THEN castObjectId(held) ELSE NotAnObjectId
          IN /\ fLoading' = TRUE
             /\ fPc' = "saveSent"
             /\ fReq' = [kind |-> kind, id |-> id, payload |-> invoicePayloadValue]
             /\ fSaves' = Append(fSaves, Save(kind, id, held))
             /\ fLast' = Action("handleSave", 0, kind, Undef)
  /\ UNCHANGED <<formData, fExtracting, fEdited,
                 invoiceVars>>

\* the request of the form reaches the server and its handler runs
ServerSave(t) ==
  /\ fPc = "saveSent"
  /\ IF fReq.kind = "create" THEN CreateInvoice(fReq.payload, t)
     ELSE UpdateInvoice(fReq.id, fReq.payload, t)
  /\ fPc' = "saveServed"
  /\ UNCHANGED <<formData, fLoading, fExtracting, fReq, fPrev, fLast, fSaves, fSteps, fEdited>>

\* the response of the request in flight, once the server has answered
saveResult == iLog[Len(iLog)]

\* handleSave that leaves the form's data as it was on success
SaveSettledKeepsForm(delivered) ==
  /\ fPc \in {"saveSent", "saveServed"}
  /\ delivered => fPc = "saveServed"
  /\ IF delivered /\ saveResult.status \in {200, 201}
     THEN LET data == docJson(saveResult.data[1])
          IN /\ formData' = formData
             /\ fLast' = Action("saved", 0, fReq.kind, data)
             /\ fSaves' = [fSaves EXCEPT ![Len(fSaves)] =
                             [@ EXCEPT !.ok = TRUE, !.returned = GetProp(data, "_id")]]
     ELSE /\ fLast' = Action("saveFailed", 0, fReq.kind, Undef)
          /\ UNCHANGED <<formData, fSaves>>
  /\ fPrev' = formData
  /\ fLoading' = FALSE
  /\ fPc' = "idle"
  /\ fReq' = NoRequest
  /\ UNCHANGED <<fExtracting, fSteps, fEdited,
                 invoiceVars>>

\* api.createInvoice / api.updateInvoice settles (lines 253-276): delivered
\* says whether the response reached the form.  On success the form takes
\* result.data, and the page's onSave hands it back as initialData, which
\* the effect of lines 56-91 makes the form's data.
SaveSettled(delivered) ==
  /\ fPc \in {"saveSent", "saveServed"}
  /\ delivered => fPc = "saveServed"
  /\ IF delivered /\ saveResult.status \in {200, 201}
     THEN LET data == docJson(saveResult.data[1])
          IN /\ formData' = safeInitialData(data, PropFileId, GetProp(data, "fileName"))
             /\ fLast' = Action("saved", 0, fReq.kind, data)
             /\ fSaves' = [fSaves EXCEPT ![Len(fSaves)] =
                             [@ EXCEPT !.ok = TRUE, !.returned = GetProp(data, "_id")]]
     ELSE /\ fLast' = Action("saveFailed", 0, fReq.kind, Undef)
          /\ UNCHANGED <<formData, fSaves>>
  /\ fPrev' = formData
  /\ fLoading' = FALSE
  /\ fPc' = "idle"
  /\ fReq' = NoRequest
  /\ UNCHANGED <<fExtracting, fSteps, fEdited,
                 invoiceVars>>

\* the texts typed into the vendor name input
VendorNames == {<<>>, <<"Q", " ">>, <<" ">>}

SessionNext ==
  \/ \E text \in VendorNames : EditVendorName(text)
  \/ EditInvoiceDate(<<" ">>)
  \/ AddLineItem
  \/ \E model \in {"gemini", "groq"} : HandleExtract(model)
  \/ \E data \in ExtractResults("gemini") \cup ExtractResults("groq") :
       ExtractSettled(TRUE, data)
  \/ ExtractSettled(FALSE, Undef)
  \/ HandleSave
  \/ \E t \in {now, now + 1} : ServerSave(t)
  \/ \E delivered \in BOOLEAN : SaveSettled(delivered)

\* ---- the form a specification starts from ----
\* a form that an extraction has filled
FilledForm(items) ==
  Obj(Spread(getDefaultFormData(PropFileId, PropFileName).o,
        [vendor |-> Obj(Vendor0), invoice |-> Obj([Invoice0 EXCEPT !.lineItems = Arr(items)])]))

EditorForms ==
  {getDefaultFormData(PropFileId, PropFileName), FilledForm(<<Obj(Item0)>>),
   FilledForm(<<Obj(Item0), Obj(Item1)>>)}

\* the form the invoice page mounts: with the stored invoice of the file as
\* initialData when there is one, else with the default data
MountedForm(coll) ==
  LET found == {i \in 1..Len(coll) : coll[i].fileId = PropFileId}
  IN IF found = {} THEN getDefaultFormData(PropFileId, PropFileName)
     ELSE safeInitialData(docJson(coll[CHOOSE i \in found : TRUE]), PropFileId,
                          coll[CHOOSE i \in found : TRUE].fileName)

(***************************************************************************)
(* The Delete button of the form and the page's onDelete (InvoiceForm.tsx  *)
(* lines 279-307 and 724-727, invoice page lines 98-100).                  *)
(***************************************************************************)
VARIABLES
  fDelete,     \* the delete request of the form: its position, its id, and
               \* whether the form has seen it succeed
  fMounted     \* the form is on the screen

pageVars == <<fDelete, fMounted>>

NoDelete == [pc |-> "idle", id |-> NotAnObjectId, ok |-> FALSE]

\* a click on Delete (lines 279-291, up to the await): the button is rendered
\* only when formData._id is set and is disabled while loading
HandleDelete ==
  /\ fMounted /\ fSteps < MaxSteps /\ ~fLoading
  /\ Truthy(GetProp(formData, "_id"))
  /\ fLoading' = TRUE
  /\ fDelete' = [fDelete EXCEPT !.pc = "sent", !.id = castObjectId(GetProp(formData, "_id"))]
  /\ fPrev' = formData
  /\ fLast' = Action("handleDelete", 0, "", GetProp(formData, "_id"))
  /\ fSteps' = fSteps + 1
  /\ UNCHANGED <<formData, fExtracting, fPc, fReq, fSaves, fEdited, fMounted, invoiceVars>>

\* the delete request of the form reaches the server and its handler runs
ServerDelete ==
  /\ fDelete.pc = "sent"
  /\ DeleteInvoice(fDelete.id)
  /\ fDelete' = [fDelete EXCEPT !.pc = "served"]
  /\ UNCHANGED <<formVars, fMounted>>

\* api.deleteInvoice settles (lines 291-306): on success the toast and
\* onDelete, which asks the router for /invoices; on failure the error
\* toast; in both cases setLoading(false).  formData is not touched.
DeleteSettled(delivered) ==
  /\ fMounted /\ fDelete.pc \in {"sent", "served"}
  /\ delivered => fDelete.pc = "served"
  /\ IF delivered /\ saveResult.status = 200
     THEN /\ fDelete' = [fDelete EXCEPT !.pc = "idle", !.ok = TRUE]
          /\ fLast' = Action("deleted", 0, "", Undef)
     ELSE /\ fDelete' = [fDelete EXCEPT !.pc = "idle"]
          /\ fLast' = Action("deleteFailed", 0, "", Undef)
  /\ fPrev' = formData
  /\ fLoading' = FALSE
  /\ UNCHANGED <<formData, fExtracting, fPc, fReq, fSaves, fSteps, fEdited, fMounted,
                 invoiceVars>>

\* the navigation that router.push('/invoices') started completes and the
\* invoice page, with the form, leaves the screen
Navigated ==
  /\ fMounted /\ fDelete.ok
  /\ fMounted' = FALSE
  /\ UNCHANGED <<formVars, fDelete, invoiceVars>>

EditSessionNext ==
  \/ fMounted /\ SessionNext /\ UNCHANGED pageVars
  \/ /\ fMounted
     /\ \E index \in Indexes, text \in Texts : UpdateLineItem(index, "quantity", text)
     /\ UNCHANGED pageVars
  \/ HandleDelete
  \/ ServerDelete
  \/ \E delivered \in BOOLEAN : DeleteSettled(delivered)
  \/ Navigated

(***************************************************************************)
(* The Blob Store and the invoices collection together: DELETE              *)
(* /api/upload/:fileId beside POST and DELETE /api/invoices.               *)
(***************************************************************************)
\* the fileId a record carries for a blob (the id's text, abbreviated), and
\* a fileId that names no blob
fileIdOf(id) == IF id = "64f000000000000000000001" THEN Payload0.fileId ELSE Str(<<"f", "2">>)
UnknownFileId == Str(<<"f", "9">>)

LifecycleBodies ==
  {Obj([Payload0 EXCEPT !.fileId = f]) : f \in {fileIdOf(id) : id \in FileIds} \cup {UnknownFileId}}

\* bucket.delete of the blob route that also removes the records of the file
BlobDeleteCascading(p) ==
  /\ DeleteBlob(p)
  /\ invoices' = SelectSeq(invoices, LAMBDA d : d.fileId # fileIdOf(delId[p]))
  /\ UNCHANGED <<now, nextOid, iLog, iDeleted, iAssigned>>

\* bucket.delete of the blob route (upload.ts lines 315-321): the route does
\* not refer to the Invoice model
BlobDelete(p) == DeleteBlob(p) /\ UNCHANGED invoiceVars

LifecycleNext ==
  \/ \E p \in Deleters, id \in FileIds \cup {BadId} :
       DeleteRequest(p, id) /\ UNCHANGED invoiceVars
  \/ \E p \in Deleters : DeleteFind(p) /\ UNCHANGED invoiceVars
  \/ \E p \in Deleters : BlobDelete(p)
  \/ \E body \in LifecycleBodies, t \in {now, now + 1} :
       CreateInvoice(body, t) /\ UNCHANGED <<bucket, deleteVars>>
  \/ \E id \in AskedIds : DeleteInvoice(id) /\ UNCHANGED <<bucket, deleteVars>>

(***************************************************************************)
(* connectDB and the handlers of the mongoose connection events            *)
(* (apps/api/src/config/database.ts).                                      *)
(***************************************************************************)
VARIABLES
  \* the module's isConnected and connectionPromise ("null", "pending",
  \* "resolved", "rejected")
  isConnected, connectionPromise,
  \* maxRetries and retryDelay of the call that made connectionPromise, and
  \* its retries
  maxRetries, retryDelay, retries,
  \* the attempts of the sequence so far ("connecting", "ok", "failed"), and
  \* the delays of the timers set between them
  cAttempts, cWaits,
  \* whether a timer of the sequence is running
  cTimer,
  \* the calls of connectDB so far: how each has ended, and what it found
  cCalls,
  \* the connection events so far
  cEvents

connectVars ==
  <<isConnected, connectionPromise, maxRetries, retryDelay, retries, cAttempts, cWaits, cTimer,
    cCalls, cEvents>>

\* the options the first call is made with
RetryDelays == {1000, 5000}

\* a call of connectDB: state is "pending", "resolved" or "rejected"; ready
\* is readyState when the call's promise settled (-1 before); connected and
\* promise are what the call found (lines 15 and 21); started says whether
\* the call began an attempt sequence
Call(state, ready, connected, promise, started) ==
  [state |-> state, ready |-> ready, connected |-> connected, promise |-> promise,
   started |-> started]

\* the calls that wait for connectionPromise settle with it
settleCalls(state, ready) ==
  [k \in 1..Len(cCalls) |->
     IF cCalls[k].state = "pending" THEN [cCalls[k] EXCEPT !.state = state, !.ready = ready]
     ELSE cCalls[k]]

\* connectDB (lines 11-78), up to the first await of attemptConnection; the
\* first attempt closes a connection that is not closed (lines 39-41, with
\* the 'disconnected' handler) and connects
connectDB ==
  /\ Len(cCalls) < MaxCalls
  /\ LET connected == isConnected /\ readyState = 1
     IN IF connected
        THEN /\ cCalls' = Append(cCalls, Call("resolved", readyState, TRUE, connectionPromise,
                                              FALSE))
             /\ UNCHANGED <<isConnected, connectionPromise, retries, cAttempts, readyState>>
        ELSE IF connectionPromise # "null"
        THEN /\ cCalls' = Append(cCalls,
                                 Call(connectionPromise,
                                      IF connectionPromise = "pending" THEN -1 ELSE readyState,
                                      FALSE, connectionPromise, FALSE))
             /\ UNCHANGED <<isConnected, connectionPromise, retries, cAttempts, readyState>>
        ELSE /\ cCalls' = Append(cCalls, Call("pending", -1, FALSE, connectionPromise, TRUE))
             /\ connectionPromise' = "pending"
             /\ retries' = 0
             /\ cAttempts' = Append(cAttempts, "connecting")
             /\ isConnected' = (isConnected /\ readyState = 0)
             /\ readyState' = 2
  /\ UNCHANGED <<maxRetries, retryDelay, cWaits, cTimer, cEvents>>

\* attemptConnection with the retry test one too late
attemptConnectionRetriesOnceMore(ok) ==
  /\ cAttempts # <<>> /\ cAttempts[Len(cAttempts)] = "connecting"
  /\ IF ok
     THEN /\ cAttempts' = [cAttempts EXCEPT ![Len(cAttempts)] = "ok"]
          /\ readyState' = 1
          /\ isConnected' = TRUE
          /\ connectionPromise' = "resolved"
          /\ cCalls' = settleCalls("resolved", 1)
          /\ UNCHANGED <<retries, cWaits, cTimer>>
     ELSE /\ cAttempts' = [cAttempts EXCEPT ![Len(cAttempts)] = "failed"]
          /\ readyState' = 0
          /\ IF retries > maxRetries
             THEN /\ connectionPromise' = "rejected"
                  /\ cCalls' = settleCalls("rejected", 0)
                  /\ UNCHANGED <<retries, cWaits, cTimer>>
             ELSE /\ retries' = retries + 1
                  /\ cWaits' = Append(cWaits, retryDelay)
                  /\ cTimer' = TRUE
                  /\ UNCHANGED <<connectionPromise, cCalls>>
          /\ UNCHANGED isConnected
  /\ UNCHANGED <<maxRetries, retryDelay, cEvents>>

\* attemptConnection from the moment mongoose.connect settles (lines 44-71):
\* on success with the 'connected' handler (lines 81-84)
attemptConnection(ok) ==
  /\ cAttempts # <<>> /\ cAttempts[Len(cAttempts)] = "connecting"
  /\ IF ok
     THEN /\ cAttempts' = [cAttempts EXCEPT ![Len(cAttempts)] = "ok"]
          /\ readyState' = 1
          /\ isConnected' = TRUE
          /\ connectionPromise' = "resolved"
          /\ cCalls' = settleCalls("resolved", 1)
          /\ UNCHANGED <<retries, cWaits, cTimer>>
     ELSE /\ cAttempts' = [cAttempts EXCEPT ![Len(cAttempts)] = "failed"]
          /\ readyState' = 0
          /\ IF retries >= maxRetries
             THEN /\ connectionPromise' = "rejected"
                  /\ cCalls' = settleCalls("rejected", 0)
                  /\ UNCHANGED <<retries, cWaits, cTimer>>
             ELSE /\ retries' = retries + 1
                  /\ cWaits' = Append(cWaits, retryDelay)
                  /\ cTimer' = TRUE
                  /\ UNCHANGED <<connectionPromise, cCalls>>
          /\ UNCHANGED isConnected
  /\ UNCHANGED <<maxRetries, retryDelay, cEvents>>

\* the timer of line 70 fires: attemptConnection runs again, up to the await
\* of mongoose.connect
RetryTimer ==
  /\ cTimer
  /\ cTimer' = FALSE
  /\ cAttempts' = Append(cAttempts, "connecting")
  /\ isConnected' = (isConnected /\ readyState = 0)
  /\ readyState' = 2
  /\ UNCHANGED <<connectionPromise, maxRetries, retryDelay, retries, cWaits, cCalls, cEvents>>

\* the handlers of the connection events (lines 81-99) with the change of
\* readyState that the event reports: the established connection drops,
\* the driver brings it back, or the connection reports an error
MongooseEvent(event) ==
  /\ Len(cEvents) < MaxDrops
  /\ CASE event = "disconnected" ->
            /\ readyState = 1
            /\ readyState' = 0 /\ isConnected' = FALSE
       [] event = "reconnected" ->
            /\ readyState = 0 /\ connectionPromise = "resolved"
            /\ readyState' = 1 /\ isConnected' = TRUE
       [] OTHER ->
            /\ event = "error"
            /\ isConnected' = FALSE /\ UNCHANGED readyState
  /\ cEvents' = Append(cEvents, event)
  /\ UNCHANGED <<connectionPromise, maxRetries, retryDelay, retries, cAttempts, cWaits, cTimer,
                 cCalls>>

ConnectNext ==
  \/ connectDB
  \/ \E ok \in BOOLEAN : attemptConnection(ok)
  \/ RetryTimer
  \/ \E event \in {"disconnected", "reconnected", "error"} : MongooseEvent(event)

(***************************************************************************)
(* Specifications.                                                         *)
(***************************************************************************)
\* The state a specification starts in.  Each specification exercises one
\* part of the program: the position of every other part is "off" and its
\* state stays as it is here.  n: a parsed reply is drawn for the
\* normalization; x, u, d, del: the positions of POST /extract, of the
\* upload (page and POST /upload), of GET /upload/:fileId and of the
\* DELETE /upload/:fileId requests; inv: the collection /api/invoices starts
\* from ("list", "crud", or "off" for an empty one that stays so); form: the
\* form ("editor": a form with line items, "session": the form the invoice
\* page mounts for the file, or "off").
vars ==
  <<sharedVars, normVars, extractVars, uploadVars, downloadVars, deleteVars, invoiceVars,
    formVars, connectVars, pageVars>>

Start(n, x, u, d, del, inv, form, conn) ==
  /\ env \in (IF inv = "off" /\ form = "off" /\ conn = "off"
              THEN [GEMINI_API_KEY : BOOLEAN, GROQ_API_KEY : BOOLEAN]
              ELSE {[GEMINI_API_KEY |-> TRUE, GROQ_API_KEY |-> TRUE]})
  /\ readyState \in (IF x = "starting" \/ conn = "idle" THEN {0}
                     ELSE IF inv = "off" /\ form = "off" THEN {0, 1} ELSE {1})
  /\ bucket \in (IF u = "idle" THEN {b \in Buckets : DOMAIN b # FileIds}
                 ELSE IF del = "idle" \/ (inv = "off" /\ form = "off" /\ conn = "off")
                 THEN Buckets
                 ELSE {[i \in {} |-> SampleLength]})
  /\ nParsed \in (IF n THEN ParsedData ELSE {Undef})
  /\ nResult = [by |-> "none", r |-> NotRun]
  /\ xPc = x /\ xBody = [fileId |-> "", model |-> ""] /\ xRes = NoRes
  /\ xStream = NoStream /\ xTimer = "unset" /\ xIdx = 0 /\ lastError = NoError
  /\ xCalls = <<>> /\ xOutcomes = <<>> /\ xRaised = NoError /\ xReads = 0
  /\ xPdfParsed = FALSE /\ xChecked = FALSE
  /\ bFile = NoFile /\ bPc = u /\ uPc = u /\ uFile = NoFile /\ uRes = NoUpload
  /\ uStream = NoUploadStream /\ uTimer = "unset" /\ uEvents = <<>> /\ uSent = 0
  /\ dPc = d /\ dId = "" /\ dRes = NoDownload /\ dStream = NoStream /\ dTimer = "unset"
  /\ delPc = [p \in Deleters |-> del] /\ delId = [p \in Deleters |-> ""]
  /\ delRes = [p \in Deleters |-> 0] /\ delRemoved = [p \in Deleters |-> FALSE]
  /\ \E s \in (IF inv = "list" THEN ListStates
               ELSE IF inv = "crud" THEN CrudStates ELSE {StoreState(<<>>, {})}) :
       /\ invoices = s.invoices /\ now = s.now /\ nextOid = s.nextOid
       /\ iDeleted = s.iDeleted /\ iAssigned = s.iAssigned
       /\ formData \in (IF form = "editor" THEN EditorForms
                        ELSE IF form = "session" THEN {MountedForm(s.invoices)}
                        ELSE {getDefaultFormData(PropFileId, PropFileName)})
  /\ iLog = <<>>
  /\ fLoading = FALSE /\ fExtracting = FALSE /\ fPc = "idle" /\ fReq = NoRequest
  /\ fPrev = formData /\ fLast = NoAction /\ fSaves = <<>> /\ fSteps = 0 /\ fEdited = FALSE
  /\ isConnected = FALSE /\ connectionPromise = "null" /\ retries = 0
  /\ maxRetries \in (IF conn = "idle" THEN 0..MaxRetries ELSE {5})
  /\ retryDelay \in (IF conn = "idle" THEN RetryDelays ELSE {5000})
  /\ cAttempts = <<>> /\ cWaits = <<>> /\ cTimer = FALSE /\ cCalls = <<>> /\ cEvents = <<>>
  /\ fDelete = NoDelete /\ fMounted = TRUE

SpecNormalize ==
  /\ Start(TRUE, "off", "off", "off", "off", "off", "off", "off")
  /\ [][(NormalizeGemini \/ NormalizeGroq)
        /\ UNCHANGED <<sharedVars, extractVars, uploadVars, downloadVars, deleteVars, invoiceVars, formVars, connectVars, pageVars>>]_vars

SpecExtract ==
  /\ Start(FALSE, "starting", "off", "off", "off", "off", "off", "off")
  /\ [][ExtractNext
        /\ UNCHANGED <<env, bucket, normVars, uploadVars, downloadVars, deleteVars, invoiceVars, formVars, connectVars, pageVars>>]_vars

SpecUpload ==
  /\ Start(FALSE, "off", "idle", "off", "off", "off", "off", "off")
  /\ [][UploadNext
        /\ UNCHANGED <<env, readyState, normVars, extractVars, downloadVars, deleteVars, invoiceVars, formVars, connectVars, pageVars>>]_vars

SpecDownload ==
  /\ Start(FALSE, "off", "off", "idle", "off", "off", "off", "off")
  /\ [][DownloadNext
        /\ UNCHANGED <<sharedVars, normVars, extractVars, uploadVars, deleteVars, invoiceVars, formVars, connectVars, pageVars>>]_vars

SpecDelete ==
  /\ Start(FALSE, "off", "off", "off", "idle", "off", "off", "off")
  /\ [][DeleteNext
        /\ UNCHANGED <<env, readyState, normVars, extractVars, uploadVars, downloadVars, invoiceVars, formVars, connectVars, pageVars>>]_vars

SpecInvoices ==
  /\ Start(FALSE, "off", "off", "off", "off", "crud", "off", "off")
  /\ [][InvoicesNext
        /\ UNCHANGED <<sharedVars, normVars, extractVars, uploadVars, downloadVars,
                       deleteVars, formVars, connectVars, pageVars>>]_vars

SpecList ==
  /\ Start(FALSE, "off", "off", "off", "off", "list", "off", "off")
  /\ [][ListNext
        /\ UNCHANGED <<sharedVars, normVars, extractVars, uploadVars, downloadVars,
                       deleteVars, formVars, connectVars, pageVars>>]_vars

SpecEditor ==
  /\ Start(FALSE, "off", "off", "off", "off", "off", "editor", "off")
  /\ [][EditorNext
        /\ UNCHANGED <<sharedVars, normVars, extractVars, uploadVars, downloadVars,
                       deleteVars, connectVars, pageVars>>]_vars

SpecSession ==
  /\ Start(FALSE, "off", "off", "off", "off", "crud", "session", "off")
  /\ [][SessionNext
        /\ UNCHANGED <<sharedVars, normVars, extractVars, uploadVars, downloadVars,
                       deleteVars, connectVars, pageVars>>]_vars

SpecEditSession ==
  /\ Start(FALSE, "off", "off", "off", "off", "crud", "session", "off")
  /\ [][EditSessionNext
        /\ UNCHANGED <<sharedVars, normVars, extractVars, uploadVars, downloadVars,
                       deleteVars, connectVars>>]_vars

SpecLifecycle ==
  /\ Start(FALSE, "off", "off", "off", "idle", "crud", "off", "off")
  /\ [][LifecycleNext
        /\ UNCHANGED <<env, readyState, normVars, extractVars, uploadVars, downloadVars,
                       formVars, connectVars, pageVars>>]_vars

SpecConnect ==
  /\ Start(FALSE, "off", "off", "off", "off", "off", "off", "idle")
  /\ [][ConnectNext
        /\ UNCHANGED <<env, bucket, normVars, extractVars, uploadVars, downloadVars,
                       deleteVars, invoiceVars, formVars, pageVars>>]_vars

\* every attempt and every timer of a sequence comes to its end
SpecConnectFair ==
  /\ SpecConnect
  /\ WF_vars((\E ok \in BOOLEAN : attemptConnection(ok))
               /\ UNCHANGED <<env, bucket, normVars, extractVars, uploadVars, downloadVars,
                              deleteVars, invoiceVars, formVars, pageVars>>)
  /\ WF_vars(RetryTimer
               /\ UNCHANGED <<env, bucket, normVars, extractVars, uploadVars, downloadVars,
                              deleteVars, invoiceVars, formVars, pageVars>>)

(***************************************************************************)
(* Properties of the download and of the blob delete.                      *)
(***************************************************************************)
\* C9 as stated: 404 when the well-formed id names no stored blob, and 408
\* whenever the 30 s timer fires, whether or not part of the body was
\* delivered; in both cases the download stream is torn down.
C9_TimeoutAlways408 ==
  /\ (dPc = "done" /\ isValid(dId) /\ dId \notin DOMAIN bucket /\ readyState = 1)
     => dRes.status = 404 \/ (dRes.status = 500 /\ dRes.error = "Database error")
  /\ dTimer = "fired" => dRes.status = 408 /\ dStream.state = "destroyed"

\* C9 amended: 404 when the lookup finds no blob for the well-formed id, and
\* then no download stream was opened; when the 30 s timer fires the stream
\* is destroyed, and the answer is 408 exactly when no part of the body had
\* been delivered: after a first chunk the response stays the 200 it began
\* as and no timeout error is sent.
C9_TimeoutBeforeFirstChunk ==
  /\ (dPc = "done" /\ isValid(dId) /\ dId \notin DOMAIN bucket /\ readyState = 1)
     => /\ dStream.state = "none"
        /\ dRes.status = 404 \/ (dRes.status = 500 /\ dRes.error = "Database error")
  /\ dTimer = "fired"
     => /\ dStream.state = "destroyed"
        /\ dStream.got = 0 => dRes.status = 408 /\ dRes.ended
        /\ dStream.got > 0 => dRes.status = 200 /\ dRes.chunks = dStream.got

\* the timer fired before any chunk and the request was answered 408
C9_Witness ==
  dTimer = "fired" /\ dStream.got = 0 /\ dStream.state = "destroyed" /\ dRes.status = 408

\* C10: DELETE /upload/:fileId answers success only to a request that removed
\* an existing blob, and answers 404 to every request with a well-formed id
\* that removed none because the blob was absent when the deletion was
\* attempted, in every interleaving of the requests.
C10_DeleteOnceElseNotFound ==
  \A p \in Deleters :
    /\ delRes[p] = 200 => delRemoved[p]
    /\ (delPc[p] = "done" /\ isValid(delId[p]) /\ readyState = 1 /\ ~delRemoved[p])
       => delRes[p] = 404


(***************************************************************************)
(* Properties of the upload.                                               *)
(***************************************************************************)
IsPdf(file) == file.present /\ file.mimetype = "application/pdf"
SizeError == "File too large. Maximum size is 25MB."
\* nothing of this request was written to the bucket
NothingWritten == uStream = NoUploadStream /\ uRes.fileId = ""

Decommissioned(o) == o.kind = "error" /\ Includes(o.error, "model_decommissioned")
KeyConfigured(model) ==
  (model = "gemini" /\ env.GEMINI_API_KEY) \/ (model = "groq" /\ env.GROQ_API_KEY)
AllUnavailable == <<"All Groq models are currently unavailable. Please try Gemini instead.">>

\* C1: on the Groq path, when the first k identifiers (0 <= k < 4) fail with
\* model_decommissioned and identifier k+1 returns a reply that parses to a
\* JSON object, the request is answered 200 with the normalized reply of identifier k+1 and
\* no error is surfaced.
C1_FallbackReturnsNormalized ==
  (/\ xPc = "done" /\ xBody.model = "groq" /\ xOutcomes # <<>>
   /\ \A i \in 1..(Len(xOutcomes) - 1) : Decommissioned(xOutcomes[i])
   /\ xOutcomes[Len(xOutcomes)].kind = "json"
   /\ xOutcomes[Len(xOutcomes)].value.t = "obj")
  => LET n == normalizedDataGroq(xOutcomes[Len(xOutcomes)].value)
     IN xRes.status = 200 /\ ~n.threw /\ xRes.data = n.value

\* C2: when every identifier of the Groq list signals model_decommissioned,
\* the request fails with retryable false and a message saying that all
\* models are unavailable.
C2_AllDecommissionedNonRetryable ==
  (/\ xPc = "done" /\ xBody.model = "groq" /\ Len(xOutcomes) = Len(models)
   /\ \A i \in 1..Len(xOutcomes) : Decommissioned(xOutcomes[i]))
  => xRes.retryable = "false" /\ xRes.details = AllUnavailable

\* the category of a failure raised by a backend call
Category(error) ==
  IF Includes(error, "503 Service Unavailable") THEN "overload"
  ELSE IF Includes(error, "quota") \/ Includes(error, "Quota") \/ Includes(error, "rate limit")
  THEN "throttled"
  ELSE IF Includes(error, "model_decommissioned") THEN "unsupported"
  ELSE "other"

CategorySignal(c) ==
  CASE c = "overload" -> <<503, "true">>
    [] c = "throttled" -> <<429, "true">>
    [] c = "unsupported" -> <<400, "false">>
    [] OTHER -> <<500, "true">>

\* C3: with either backend, a failure of the AI call is answered by its
\* category: overload 503 retryable, quota or rate limit 429 retryable,
\* unsupported or retired model 400 not retryable, anything else 500
\* retryable; the category is that of the failure the backend call raised.
C3_FailureMappedByCategory ==
  (xPc = "done" /\ xCalls # <<>> /\ xRaised # NoError)
  => <<xRes.status, xRes.retryable>> = CategorySignal(Category(xRaised))

\* C6: an AI backend, or the local PDF text extraction, runs only after the
\* request carried a fileId and a model of {gemini, groq}, the store was seen
\* connected and the blob's bytes were retrieved to the end; a request that
\* reaches the retrieval with a fileId naming no stored blob is answered 404,
\* and no request for such a fileId calls an AI backend.
C6_FailFast ==
  /\ (xCalls # <<>> \/ xPdfParsed)
     => /\ xBody.fileId # "" /\ xBody.model \in {"gemini", "groq"}
        /\ xChecked
        /\ xBody.fileId \in DOMAIN bucket
        /\ xStream.state = "ended" /\ xStream.got = xStream.total /\ xStream.got > 0
  /\ xBody.fileId \notin DOMAIN bucket => xCalls = <<>> /\ ~xPdfParsed
  /\ (xPc = "done" /\ xChecked /\ xBody.fileId \notin DOMAIN bucket) => xRes.status = 404

\* a well-formed id that names no blob was looked up and answered 404
C6_Witness ==
  /\ xPc = "done" /\ xChecked /\ xBody.fileId \in FileIds \ DOMAIN bucket
  /\ xReads = 1 /\ xStream.state = "errored" /\ xRes.status = 404

\* a well-formed request for a backend whose key is not configured
KeyMissingRequest ==
  /\ xPc = "done" /\ xBody.fileId # "" /\ xBody.model \in {"gemini", "groq"}
  /\ ~KeyConfigured(xBody.model)

\* C7 as stated: the server starts without the key, and a well-formed request
\* for that backend is answered 400, without a read of the Blob Store and
\* without an AI call.
C7_KeyMissingIs400 ==
  KeyMissingRequest
  => xRes.status = 400 /\ xReads = 0 /\ xCalls = <<>> /\ ~xPdfParsed

\* C7 amended: the server starts without the key (StartServer reads none),
\* and a well-formed request for that backend is answered 500 'Configuration
\* error', without a read of the Blob Store and without an AI call.
C7_KeyMissingIs500 ==
  KeyMissingRequest
  => /\ xRes.status = 500 /\ xRes.error = "Configuration error"
     /\ xReads = 0 /\ xStream = NoStream /\ xCalls = <<>> /\ ~xPdfParsed

\* the store is connected and holds the blob, only the key is missing
C7_Witness ==
  /\ KeyMissingRequest /\ readyState = 1 /\ xBody.fileId \in DOMAIN bucket
  /\ xRes.status = 500

(***************************************************************************)
(* Properties of the normalization.                                        *)
(***************************************************************************)
TextOk(v) == IsString(v)
NumberOk(v) == v.t = "num"

WellTyped(d) ==
  /\ TextOk(d.vendor.name) /\ TextOk(d.vendor.address) /\ TextOk(d.vendor.taxId)
  /\ TextOk(d.invoice.number) /\ TextOk(d.invoice.date) /\ TextOk(d.invoice.currency)
  /\ TextOk(d.invoice.poNumber) /\ TextOk(d.invoice.poDate)
  /\ NumberOk(d.invoice.subtotal) /\ NumberOk(d.invoice.taxPercent)
  /\ NumberOk(d.invoice.total)
  /\ \A i \in 1..Len(d.invoice.lineItems) :
       LET it == d.invoice.lineItems[i]
       IN /\ TextOk(it.description) /\ NumberOk(it.unitPrice)
          /\ NumberOk(it.quantity) /\ NumberOk(it.total)

\* C4: for every reply that parses to an object, the normalization of either backend returns a
\* value (it does not throw) whose textual fields are strings, whose numeric
\* fields are numbers and whose lineItems is a sequence of items typed the
\* same way.
C4_NormalizationTotal ==
  (nResult.by # "none" /\ nParsed.t = "obj") => ~nResult.r.threw /\ WellTyped(nResult.r.value)

\* the defaulting policy as stated: a string is kept, anything else is ''
TextPolicy(in) == IF IsString(in) THEN in ELSE Str(<<>>)
\* a number is kept, anything else is the default
NumberPolicy(in, d) == IF in.t = "num" THEN in ELSE Num(d)

ItemPolicy(item) ==
  [description |-> TextPolicy(OptProp(item, "description")),
   unitPrice |-> NumberPolicy(OptProp(item, "unitPrice"), 0),
   quantity |-> NumberPolicy(OptProp(item, "quantity"), 1),
   total |-> NumberPolicy(OptProp(item, "total"), 0)]

Policy(x) ==
  LET vendor == OptProp(x, "vendor")
      invoice == OptProp(x, "invoice")
      li == OptProp(invoice, "lineItems")
  IN [vendor |->
        [name |-> TextPolicy(OptProp(vendor, "name")),
         address |-> TextPolicy(OptProp(vendor, "address")),
         taxId |-> TextPolicy(OptProp(vendor, "taxId"))],
      invoice |->
        [number |-> TextPolicy(OptProp(invoice, "number")),
         date |-> TextPolicy(OptProp(invoice, "date")),
         currency |-> TextPolicy(OptProp(invoice, "currency")),
         subtotal |-> NumberPolicy(OptProp(invoice, "subtotal"), 0),
         taxPercent |-> NumberPolicy(OptProp(invoice, "taxPercent"), 0),
         total |-> NumberPolicy(OptProp(invoice, "total"), 0),
         poNumber |-> TextPolicy(OptProp(invoice, "poNumber")),
         poDate |-> TextPolicy(OptProp(invoice, "poDate")),
         lineItems |->
           IF IsArray(li) THEN [i \in 1..Len(li.a) |-> ItemPolicy(li.a[i])] ELSE <<>>]]

\* C5: for both backends and every reply that parses to an object, the
\* normalized value is the one the defaulting policy gives: a textual field that is missing or not a string is '', a
\* numeric field that is missing or not a number is 0 (1 for a line item's
\* quantity), a missing or non-array lineItems is empty, and a field of the
\* documented type is kept.
C5_DefaultingPolicy ==
  (nResult.by # "none" /\ nParsed.t = "obj") => ~nResult.r.threw /\ nResult.r.value = Policy(nParsed)

(***************************************************************************)
(* Properties of /api/invoices.                                            *)
(***************************************************************************)
\* the entries of the log
Entries == {iLog[k] : k \in 1..Len(iLog)}

\* t occurs in s as a substring, letter case ignored
ContainsIgnoreCase(s, t) ==
  \E i \in 1..(Len(s) - Len(t) + 1) :
    \A k \in 1..Len(t) : toLowerCase(s[i + k - 1]) = toLowerCase(t[k])

\* vendor.name or invoice.number of the document contains the term
LiteralHit(d, t) ==
  \/ LET v == GetProp(d.vendor, "name") IN v.t = "str" /\ ContainsIgnoreCase(v.s, t)
  \/ LET v == GetProp(d.invoice, "number") IN v.t = "str" /\ ContainsIgnoreCase(v.s, t)

AtMost(n, m) == IF n < m THEN n ELSE m

\* C11: a list request with a non-empty term t succeeds whatever characters
\* t has, and returns exactly the stored documents (up to the page cap)
\* whose vendor.name or invoice.number contains t as a literal substring,
\* letter case ignored.
C11_SearchIsLiteralSubstring ==
  \A e \in Entries :
    e.op = "list" /\ e.q.t = "str" /\ e.q.s # <<>> =>
      /\ e.status = 200
      /\ \A i \in 1..Len(e.data) : LiteralHit(e.data[i], e.q.s)
      /\ Len(e.data) =
           AtMost(limit, Cardinality({i \in 1..Len(e.before) : LiteralHit(e.before[i], e.q.s)}))

\* a list request without a search term
NoTerm(e) == e.op = "list" /\ (e.q.t = "undef" \/ (e.q.t = "str" /\ e.q.s = <<>>))

RequiredFields == {"fileId", "fileName", "vendor", "invoice"}

\* C13: POST /api/invoices answers 400 exactly when one of fileId, fileName,
\* vendor, invoice is missing at the top level, and answers 201 for every
\* payload that carries the four, whatever the sub-objects contain.
C13_CreateIsPresenceCheckOnly ==
  \A e \in Entries :
    e.op = "create" =>
      LET missing == \E f \in RequiredFields : GetProp(e.body, f).t = "undef"
      IN /\ e.status = 400 <=> missing
         /\ ~missing => e.status = 201 /\ Len(e.data) = 1

\* a request directly followed by a GET of the same id
Followed(k, op) ==
  /\ iLog[k].op = op /\ iLog[k].status \in {200, 201}
  /\ iLog[k + 1].op = "get" /\ iLog[k + 1].id = iLog[k].id

\* the value has the type the schema declares: no other property, every
\* property of its declared type
TypedAs(schema, v) ==
  /\ v.t = "obj"
  /\ \A f \in DOMAIN v.o :
       f \in DOMAIN schema /\ v.o[f].t = (IF schema[f].type = "String" THEN "str" ELSE "num")

\* vendor and invoice of the payload are of the types of InvoiceData
TypedPayload(body) ==
  /\ TypedAs(VendorSchema, GetProp(body, "vendor"))
  /\ GetProp(body, "invoice").t = "obj"
  /\ GetProp(GetProp(body, "invoice"), "lineItems").t = "arr"
  /\ TypedAs(InvoiceDataSchema, Obj(Without(GetProp(body, "invoice").o, "lineItems")))
  /\ \A i \in 1..Len(GetProp(GetProp(body, "invoice"), "lineItems").a) :
       TypedAs(LineItemSchema, GetProp(GetProp(body, "invoice"), "lineItems").a[i])

\* C14: after an accepted POST, a GET of the assigned id returns a record
\* whose fileId, fileName, vendor and invoice equal the payload's, with the
\* identity and the createdAt the store assigned at the creation; the
\* identity has named no document before.  (Stated for the payloads whose
\* vendor and invoice have the declared types: the store converts the
\* others to them.)
C14_CreateGetRoundTrip ==
  \A k \in 1..(Len(iLog) - 1) :
    Followed(k, "create") /\ TypedPayload(iLog[k].body) =>
      LET c == iLog[k]
          g == iLog[k + 1]
      IN /\ g.status = 200
         /\ g.data[1].fileId = GetProp(c.body, "fileId")
         /\ g.data[1].fileName = GetProp(c.body, "fileName")
         /\ g.data[1].vendor = GetProp(c.body, "vendor")
         /\ g.data[1].invoice = GetProp(c.body, "invoice")
         /\ g.data[1]._id = c.id /\ c.id \notin c.assigned
         /\ g.data[1].createdAt = c.t

\* C15: after a PUT of an existing id, a GET returns the payload's vendor
\* and invoice in place of the previous ones, updatedAt at the time of the
\* update, and createdAt as it was before the update, whatever fields the
\* payload carries.
C15_UpdateGetRoundTrip ==
  \A k \in 1..(Len(iLog) - 1) :
    Followed(k, "update") =>
      LET u == iLog[k]
          g == iLog[k + 1]
      IN /\ g.status = 200
         /\ GetProp(u.body, "vendor").t # "undef" =>
              g.data[1].vendor = GetProp(u.body, "vendor")
         /\ GetProp(u.body, "invoice").t # "undef" =>
              g.data[1].invoice = GetProp(u.body, "invoice")
         /\ g.data[1].updatedAt = Num(u.t)
         /\ g.data[1].createdAt = findById(u.before, u.id).createdAt

\* C16: once a DELETE has answered success for an id, every GET and DELETE
\* of that id is answered 404, no PUT of it is answered with a record, and
\* no list contains it.
C16_DeleteIsTerminal ==
  \A e \in Entries :
    /\ e.op \in {"get", "delete"} /\ e.id \in e.deleted => e.status = 404
    /\ e.op = "update" /\ e.id \in e.deleted => e.status # 200
    /\ e.op = "list" => \A i \in 1..Len(e.data) : e.data[i]._id \notin e.deleted

\* C17: GET, PUT and DELETE /api/invoices/:id answer with the record (200)
\* when a record has the id and with 404 for every other id string.
C17_FoundOrNotFound ==
  \A e \in Entries :
    e.op \in {"get", "update", "delete"} =>
      e.status = (IF positionsOf(e.before, e.id) # {} THEN 200 ELSE 404)

(***************************************************************************)
(* Properties of the invoice form.                                         *)
(***************************************************************************)
\* the line items of a form's data
ItemsOf(data) == GetProp(GetProp(data, "invoice"), "lineItems").a

\* a form's data without its line items
AroundItems(data) ==
  <<Without(data.o, "invoice"), Without(GetProp(data, "invoice").o, "lineItems")>>

\* C18: updateLineItem on a valid index sets the field of that item; setting
\* unitPrice or quantity sets the item's total to the product of its
\* resulting unitPrice and quantity, setting total or description leaves the
\* item's other fields as they were; every other line item, the order of
\* the items and the rest of the form are unchanged; an out-of-range index
\* changes nothing.
C18_UpdateLineItemRecomputes ==
  fLast.kind = "updateLineItem" =>
    LET before == ItemsOf(fPrev)
        after == ItemsOf(formData)
        i == fLast.index + 1
    IN IF i \in 1..Len(before)
       THEN /\ Len(after) = Len(before)
            /\ \A k \in 1..Len(before) : k # i => after[k] = before[k]
            /\ AroundItems(formData) = AroundItems(fPrev)
            /\ GetProp(after[i], fLast.field) = fLast.value
            /\ IF fLast.field \in {"unitPrice", "quantity"}
               THEN /\ GetProp(after[i], "total") =
                         Times(GetProp(after[i], "unitPrice"), GetProp(after[i], "quantity"))
                    /\ Without(Without(after[i].o, fLast.field), "total") =
                         Without(Without(before[i].o, fLast.field), "total")
               ELSE Without(after[i].o, fLast.field) = Without(before[i].o, fLast.field)
       ELSE formData = fPrev

\* a quantity was set on the second of two items, and the item's total moved
C18_Witness ==
  /\ fLast.kind = "updateLineItem" /\ fLast.field = "quantity" /\ fLast.index = 1
  /\ Len(ItemsOf(fPrev)) = 2
  /\ GetProp(ItemsOf(formData)[2], "total") # GetProp(ItemsOf(fPrev)[2], "total")
  /\ GetProp(ItemsOf(formData)[2], "total") = Num(20)

\* the saves of the session that were answered with success
SavedOk == {k \in 1..Len(fSaves) : fSaves[k].ok}

\* C19: Save issues a create exactly when the form holds no identity and an
\* update of the held identity otherwise; after a successful Save the form
\* holds the identity the server returned; at most one create of a session
\* succeeds and every Save after a successful one updates that record.
C19_SaveCreatesOnce ==
  /\ fLast.kind = "handleSave" =>
       /\ fReq.kind = (IF Truthy(GetProp(formData, "_id")) THEN "update" ELSE "create")
       /\ fReq.kind = "update" => Num(fReq.id) = GetProp(formData, "_id")
  /\ fPc = "saveServed" =>
       /\ iLog[Len(iLog)].op = fReq.kind
       /\ fReq.kind = "update" => iLog[Len(iLog)].id = fReq.id
  /\ fLast.kind = "saved" =>
       /\ Truthy(GetProp(formData, "_id"))
       /\ GetProp(formData, "_id") = GetProp(fLast.value, "_id")
  /\ Cardinality({k \in SavedOk : fSaves[k].kind = "create"}) <= 1
  /\ \A i \in SavedOk : \A j \in (i + 1)..Len(fSaves) :
       /\ fSaves[j].kind = "update"
       /\ Num(fSaves[j].id) = fSaves[i].returned

\* a create succeeded, and the next Save updated the record it created
C19_Witness ==
  /\ Len(fSaves) = 2
  /\ fSaves[1].kind = "create" /\ fSaves[1].ok
  /\ fSaves[2].kind = "update" /\ fSaves[2].ok
  /\ fSaves[2].returned = fSaves[1].returned
  /\ Len(invoices) = 1

\* C20: when an extraction started from the form succeeds, the form's vendor
\* and invoice are those of the normalized result of the response, whatever
\* the form held and whatever was edited meanwhile, and every other field of
\* the form (fileId, fileName, the record identity) is as it was.
C20_LastExtractionWins ==
  fLast.kind = "extracted" =>
    /\ fLast.value \in ExtractResults(fLast.field)
    /\ GetProp(formData, "vendor") = GetProp(fLast.value, "vendor")
    /\ GetProp(formData, "invoice") = GetProp(fLast.value, "invoice")
    /\ Without(Without(formData.o, "vendor"), "invoice") =
         Without(Without(fPrev.o, "vendor"), "invoice")

\* an extraction replaced the vendor of a saved record's form that the user
\* had edited while the extraction was under way
C20_Witness ==
  /\ fLast.kind = "extracted" /\ fEdited
  /\ Truthy(GetProp(formData, "_id"))
  /\ GetProp(fPrev, "vendor") # GetProp(formData, "vendor")
  /\ GetProp(fPrev, "vendor") \notin {Obj(Vendor0)}

\* v is a string that is not empty once trimmed
NonEmptyText(v) == IsString(v) /\ trim(v.s) # <<>>

\* C21: the form sends a create or update only when fileId and fileName are
\* set and vendor.name, invoice.number and invoice.date are non-empty after
\* trimming; a refused Save sends nothing and leaves the form as it was;
\* every record written through the form has the three texts non-empty.
C21_SaveOnlyWhenValid ==
  /\ fLast.kind = "handleSave" =>
       /\ Truthy(GetProp(formData, "fileId")) /\ Truthy(GetProp(formData, "fileName"))
       /\ NonEmptyText(OptProp(GetProp(formData, "vendor"), "name"))
       /\ NonEmptyText(OptProp(GetProp(formData, "invoice"), "number"))
       /\ NonEmptyText(OptProp(GetProp(formData, "invoice"), "date"))
  /\ fLast.kind = "saveRefused" =>
       /\ formData = fPrev /\ fPc = "idle" /\ fReq = NoRequest /\ ~fLoading
  /\ \A e \in Entries :
       e.op \in {"create", "update"} /\ e.status \in {200, 201} =>
         /\ NonEmptyText(GetProp(e.data[1].vendor, "name"))
         /\ NonEmptyText(GetProp(e.data[1].invoice, "number"))
         /\ NonEmptyText(GetProp(e.data[1].invoice, "date"))

\* a Save of a form whose vendor name is blanks was refused, and a Save of
\* the session wrote a record
C21_Witness ==
  /\ fLast.kind = "saveRefused" /\ fLast.field = "Vendor name is required"
  /\ GetProp(GetProp(formData, "vendor"), "name") = Str(<<" ">>)
  /\ \E e \in Entries : e.op = "update" /\ e.status = 200

(***************************************************************************)
(* Properties of the two stores together.                                  *)
(***************************************************************************)
\* the blob ids a fileId names
BlobsNamed(fileId) == {id \in DOMAIN bucket : fileIdOf(id) = fileId}

\* C22: a DELETE /api/invoices/:id leaves the bucket as it is, a step of a
\* DELETE /api/upload/:fileId leaves the invoices as they are, and a POST
\* /api/invoices of a well-formed payload whose fileId names no blob is
\* answered 201.
C22_IndependentLifecycles ==
  [][/\ (iLog' # iLog /\ iLog'[Len(iLog')].op = "delete") => bucket' = bucket
     /\ (delPc' # delPc) => invoices' = invoices
     /\ (iLog' # iLog /\ iLog'[Len(iLog')].op = "create"
           /\ BlobsNamed(GetProp(iLog'[Len(iLog')].body, "fileId")) = {}) =>
          /\ iLog'[Len(iLog')].status = 201
          /\ bucket' = bucket]_vars

\* a blob was deleted and a stored record still names it, a record was
\* created for a fileId that names no blob, and a record was deleted
C22_Witness ==
  /\ \E p \in Deleters :
       /\ delRemoved[p]
       /\ \E i \in 1..Len(invoices) : invoices[i].fileId = fileIdOf(delId[p])
  /\ \E e \in Entries :
       e.op = "create" /\ e.status = 201 /\ GetProp(e.body, "fileId") = UnknownFileId
  /\ \E e \in Entries : e.op = "delete" /\ e.status = 200

(***************************************************************************)
(* Properties of the loop over the Groq models.                            *)
(***************************************************************************)
\* the error one Groq call ends its iteration with, NoError when it returns
GroqThrown(o) ==
  CASE o.kind = "error" -> o.error
    [] o.kind = "empty" -> <<"No response from Groq API">>
    [] o.kind = "garbage" -> <<"Invalid JSON response from Groq API">>
    [] OTHER -> IF normalizedDataGroq(o.value).threw THEN normalizedDataGroq(o.value).error
                ELSE NoError

DecommissionedSignal(o) == Includes(GroqThrown(o), "model_decommissioned")

\* C23: on the Groq path the models are called in the order of the list,
\* each at most once; every call but the last ended with a
\* model_decommissioned signal; the request is over after a call that
\* succeeded, after one that failed otherwise (an empty or unparseable reply
\* included), or after the fourth; the failure surfaced is the last call's.
C23_GroqStopsAtFirstOutcome ==
  xPdfParsed =>
    /\ Len(xCalls) <= Len(models)
    /\ xCalls = SubSeq(models, 1, Len(xCalls))
    /\ \A k \in 1..(Len(xCalls) - 1) : DecommissionedSignal(xOutcomes[k])
    /\ xPc = "groq" =>
         /\ xIdx = Len(xCalls) + 1
         /\ \A k \in 1..Len(xCalls) : DecommissionedSignal(xOutcomes[k])
    /\ (xPc = "done" /\ xCalls # <<>>) =>
         LET last == xOutcomes[Len(xCalls)]
         IN IF GroqThrown(last) = NoError
            THEN xRes = extractSuccessResponse(normalizedDataGroq(last.value).value)
            ELSE /\ DecommissionedSignal(last) => Len(xCalls) = Len(models)
                 /\ xRaised = GroqThrown(last)
                 /\ xRes = extractErrorResponse(groqCatch(GroqThrown(last)))

\* two models were decommissioned and the third gave a reply that is not
\* JSON: the request ended there with that failure
C23_Witness ==
  /\ xPdfParsed /\ xPc = "done" /\ Len(xCalls) = 3
  /\ xOutcomes[3].kind = "garbage"
  /\ xRes.status = 500

(***************************************************************************)
(* Properties of the upload stream's events.                               *)
(***************************************************************************)
\* C24: once the upload stream of a POST /api/upload is open, no response
\* is sent before the first of finish, error and timeout, and exactly one
\* from then on: 201 with the blob's id after a finish, 500 after an error
\* or a timeout; after a timeout the stream is destroyed; later events
\* leave the response as it is.
C24_UploadAnswersOnce ==
  uStream.state # "none" =>
    IF uEvents = <<>> THEN uSent = 0
    ELSE /\ uSent = 1
         /\ uRes = (IF uEvents[1] = "finish" THEN UploadRes(201, "", uStream.id)
                    ELSE UploadRes(500, "Upload failed", ""))
         /\ uEvents[1] = "timeout" => uStream.state = "destroyed"

\* the timer fired first, and an error and a finish of the stream came after
C24_Witness ==
  /\ Len(uEvents) = 3 /\ uEvents[1] = "timeout"
  /\ "finish" \in {uEvents[2], uEvents[3]} /\ "error" \in {uEvents[2], uEvents[3]}
  /\ uSent = 1 /\ uRes.status = 500

(***************************************************************************)
(* Properties of connectDB.                                                *)
(***************************************************************************)
\* the attempts of the sequence and its outcome
AttemptsBounded ==
  /\ Len(cAttempts) <= maxRetries + 1
  /\ \A k \in 1..(Len(cAttempts) - 1) : cAttempts[k] = "failed"
  /\ \A k \in 1..Len(cWaits) : cWaits[k] = retryDelay
  /\ cAttempts # <<>> => Len(cAttempts) = Len(cWaits) + (IF cTimer THEN 0 ELSE 1)
  /\ connectionPromise = "resolved" <=>
       (cAttempts # <<>> /\ cAttempts[Len(cAttempts)] = "ok")
  /\ connectionPromise = "rejected" <=>
       (Len(cAttempts) = maxRetries + 1 /\ cAttempts[Len(cAttempts)] = "failed")
  /\ connectionPromise = "pending" <=>
       (cTimer \/ (cAttempts # <<>> /\ cAttempts[Len(cAttempts)] = "connecting"))

\* the calls made while the sequence is in progress
CallsShare ==
  \A k \in 1..Len(cCalls) :
    cCalls[k].promise = "pending" =>
      /\ ~cCalls[k].started
      /\ cCalls[k].state = connectionPromise

\* C25: a sequence of connectDB makes at most maxRetries + 1 attempts, each
\* after the first following a wait of retryDelay; it resolves with the
\* first attempt that succeeds and rejects with the failure of attempt
\* maxRetries + 1; the calls made while it is in progress start no attempt
\* and end as it ends; and a sequence in progress comes to an end.
C25_ConnectTerminates ==
  /\ [](AttemptsBounded /\ CallsShare)
  /\ (connectionPromise = "pending") ~> (connectionPromise \in {"resolved", "rejected"})

\* with maxRetries = 2 the third attempt failed and the sequence rejected,
\* together with a call that had joined it
C25_Witness ==
  /\ maxRetries = 2 /\ connectionPromise = "rejected" /\ Len(cAttempts) = 3
  /\ Len(cWaits) = 2
  /\ \E k \in 1..Len(cCalls) : cCalls[k].promise = "pending" /\ cCalls[k].state = "rejected"

\* C28: a call of connectDB resolves only while the connection is
\* connected, and a call that finds the connection down and no sequence in
\* progress starts a sequence.
C28_ResolvesConnected ==
  \A k \in 1..Len(cCalls) :
    /\ cCalls[k].state = "resolved" => cCalls[k].ready = 1
    /\ (~cCalls[k].connected /\ cCalls[k].promise # "pending") => cCalls[k].started

(***************************************************************************)
(* Properties of the Delete button of the form.                            *)
(***************************************************************************)
\* C26: once the form has seen its delete succeed, the edit session issues
\* no further request: no create or update (Save), no delete and no extract,
\* for as long as the form is on the screen.
C26_DeletedIsTerminal ==
  (fDelete.ok /\ fMounted) =>
    fLast.kind \notin {"handleSave", "handleExtract", "handleDelete"}

(***************************************************************************)
(* Properties of the records of a file.                                    *)
(***************************************************************************)
\* C27: the collection holds at most one invoice record per fileId.
C27_OneRecordPerFile ==
  \A i, j \in 1..Len(invoices) : invoices[i].fileId = invoices[j].fileId => i = j

(***************************************************************************)
(* Properties of the end of a download.                                    *)
(***************************************************************************)
\* C29: once the handler of GET /upload/:fileId and the events it waits for
\* (data, end, error, the 30 s timer) are over, the response is finished:
\* it was ended, also when the timer fired or the stream failed after part
\* of the body was sent.
C29_DownloadResponseEnded ==
  dPc = "done" => dRes.headersSent /\ dRes.ended

(***************************************************************************)
(* Properties of the quantity of a line item.                              *)
(***************************************************************************)
\* C30: the payload a Save sends carries, for every line item of the form
\* whose quantity is a number, that same quantity, 0 included.
C30_QuantityPreserved ==
  fLast.kind = "handleSave" =>
    /\ Len(ItemsOf(fReq.payload)) = Len(ItemsOf(formData))
    /\ \A i \in 1..Len(ItemsOf(formData)) :
         LET quantity == OptProp(ItemsOf(formData)[i], "quantity")
         IN (quantity.t = "num") => GetProp(ItemsOf(fReq.payload)[i], "quantity") = quantity

=============================================================================
